---- MODULE Spec2Model ----
(***************************************************************************)
(* Verification model of the woosh audio engine: the trim/fade range       *)
(* resolver (ui/WaveformViewHelpers.cpp), the waveform decimator           *)
(* (ui/WaveformView.cpp), the level meter, gain normalizer, dynamics       *)
(* compressor and fade curves (utils/DSP.cpp), and their callers: the      *)
(* parallel reductions of utils/DSP.cpp, the batch processing of           *)
(* ui/MainWindow.cpp, the undo snapshot of audio/AudioClip.cpp and the     *)
(* view state of ui/WaveformView.cpp.                                      *)
(***************************************************************************)
EXTENDS Integers, Sequences, FiniteSets, TLC

VARIABLES
    rArgs,      \* arguments of the last computeTrimAndFadeRanges call
    rResult,    \* the TrimAndFadeRanges it returned (plus the wrap flag)
    rDone,      \* TRUE once the call has returned
    clipSamples,            \* clip_->samples(): interleaved samples of the shown clip
    clipChannels,           \* clip_->channels()
    widgetWidth,            \* width() of the WaveformView
    scrollOffsetFrames,     \* WaveformView::scrollOffsetFrames_
    samplesPerPixel,        \* WaveformView::samplesPerPixel_, in units of 1/SppDen
    channelCache,           \* WaveformView::channelCache_: [channel][column] -> {minVal, maxVal}
    cacheValid,             \* WaveformView::cacheValid_
    samples,        \* the std::vector<float> handed to the DSP functions
    original,       \* the buffer as it was loaded
    targetDb,       \* the target level of the normalize calls, in hundredths of a dB
    calls,          \* the normalize calls made so far, oldest first
    prevSamples,    \* the buffer as it was when the last normalize call began
    gainDb,         \* the local gainDb of the last normalize call
    gain,           \* the local gain of the last normalize call
    scaled,         \* how many samples the last normalize call multiplied by gain
    metrics,        \* what refreshMetrics measured on the current buffer, if it ran
    cArgs,          \* arguments of the DSP::compressor call
    cResult,        \* what the call did: the buffer after it, the per-frame envelope,
                    \* gain and reduction, and the sample indices it accessed
    cDone,          \* TRUE once DSP::compressor has returned
    fArgs,          \* arguments of the applyFadeIn / applyFadeOut call
    fResult,        \* which of the two ran, the gains it applied and the buffer after it
    fDone,          \* TRUE once the fade call has returned
    pending,        \* columns whose par_unseq worker has not run yet
    parPhase,       \* where the parallel computeWaveformCache stands
    redArgs,        \* the DSP call made on a large buffer, and its arguments
    redBuf,         \* the std::vector<float> the call works on
    redSequential,  \* what the sequential loops of the same call leave behind on
                    \* the same buffer
    redRanges,      \* the index ranges the workers have run over so far
    redCuts,        \* last index of each range the execution policy formed
    redPending,     \* ranges whose worker has not run yet
    redParts,       \* the partial accumulator of each range that has run
    redResult,      \* what the reduction returned
    redPhase,       \* where the call stands
    clips,              \* MainWindow::clips_: the AudioClip objects of the UI thread
    heap,               \* the sample storage of every std::vector<float>, by address
    processingIndices,  \* MainWindow::processingIndices_
    processingOps,      \* the normalize and compress flags of the run
    workers,            \* the clip each QtConcurrent::mapped call works on, and its position
    batchPhase,         \* where the background run stands
    uiActions,          \* UI actions taken since the run started
    actor,              \* the thread that took the last step
    audioClip,      \* the fields of one AudioClip
    clipHistory,    \* the calls made on it: the last call, the state before it and
                    \* the state at the last saveOriginal()
    viewClip,           \* WaveformView::clip_: the shown clip, or none
    viewWidth,          \* width() of the widget
    viewScroll,         \* WaveformView::scrollOffsetFrames_
    viewSpp,            \* WaveformView::samplesPerPixel_, an exact fraction
    viewCacheValid,     \* WaveformView::cacheValid_
    viewCacheInputs,    \* the inputs channelCache_ was last computed from
    viewTrimStart,      \* WaveformView::trimStartFrame_
    viewTrimEnd,        \* WaveformView::trimEndFrame_
    viewFadeIn,         \* WaveformView::fadeInLengthFrames_
    viewFadeOut,        \* WaveformView::fadeOutLengthFrames_
    viewEvents,         \* events delivered to the widget so far
    viewPainted         \* what the last paintEvent drew

resolverVars == <<rArgs, rResult, rDone>>
decimatorVars == <<clipSamples, clipChannels, widgetWidth, scrollOffsetFrames,
                   samplesPerPixel, channelCache, cacheValid>>
dspVars == <<samples, original, targetDb, calls, prevSamples, gainDb, gain, scaled, metrics>>
compVars == <<cArgs, cResult, cDone>>
fadeVars == <<fArgs, fResult, fDone>>
parVars == <<pending, parPhase>>
redVars == <<redArgs, redBuf, redSequential, redRanges, redCuts, redPending, redParts, redResult, redPhase>>
batchVars == <<clips, heap, processingIndices, processingOps, workers,
               batchPhase, uiActions, actor>>
clipVars == <<audioClip, clipHistory>>
viewVars == <<viewClip, viewWidth, viewScroll, viewSpp, viewCacheValid, viewCacheInputs,
              viewTrimStart,  viewTrimEnd,  viewFadeIn,         viewFadeOut,        
              viewEvents, viewPainted>>
earlyVars == <<resolverVars, decimatorVars, dspVars, compVars, fadeVars, parVars>>
lateVars == <<redVars, batchVars, clipVars, viewVars>>
vars == <<earlyVars, lateVars>>

Min(a, b) == IF a < b THEN a ELSE b
Max(a, b) == IF a > b THEN a ELSE b

(***************************************************************************)
(* Bounds of the resolver's inputs.                                        *)
(***************************************************************************)
MaxFrameCount == 6      \* clip lengths 0..MaxFrameCount are enumerated
MaxFadeLen == 4         \* requested fade lengths 0..MaxFadeLen are enumerated
SizeWrap == 1000000     \* modulus standing for 2^64 in std::size_t arithmetic

\* (size_t)-1: what a caller passing a negative int hands to the resolver.
SizeMax == SizeWrap - 1

\* std::size_t subtraction: wraps around below zero.
SizeSub(a, b) == IF a >= b THEN a - b ELSE a - b + SizeWrap

\* TRUE iff the std::size_t subtraction a - b wraps.
SizeUnderflows(a, b) == a < b

\* TrimAndFadeRanges result{}: value-initialised, every index 0.
ZeroRanges ==
    [visibleStartFrame |-> 0, visibleEndFrame |-> 0,
     fadeInStartFrame |-> 0, fadeInEndFrame |-> 0,
     fadeOutStartFrame |-> 0, fadeOutEndFrame |-> 0,
     wrapped |-> FALSE]

\* A plausible slip: the early return for an empty clip is missing.
EmptyClip_never(clipFrameCount) == FALSE

\* WaveformViewHelpers.cpp:15, the guard of the early return.
EmptyClip(clipFrameCount) == clipFrameCount = 0

\* A plausible slip: the end trim is not clamped to the clip's length.
EffectiveTrimEnd_notClamped(trimEndFrame, clipFrameCount) ==
    Max(IF trimEndFrame > 0 THEN trimEndFrame ELSE clipFrameCount, 1)

\* WaveformViewHelpers.cpp:19-20.
EffectiveTrimEnd(trimEndFrame, clipFrameCount) ==
    Max(IF trimEndFrame > 0 THEN Min(trimEndFrame, clipFrameCount) ELSE clipFrameCount, 1)

\* A plausible slip: the start trim is taken as requested.
EffectiveTrimStart_notClamped(trimStartFrame, effectiveTrimEnd) == trimStartFrame

\* WaveformViewHelpers.cpp:22.
EffectiveTrimStart(trimStartFrame, effectiveTrimEnd) ==
    Min(trimStartFrame, SizeSub(effectiveTrimEnd, 1))

\* WaveformViewHelpers.cpp:34.
ActiveLength(activeStart, activeEnd) ==
    IF activeEnd > activeStart THEN SizeSub(activeEnd, activeStart) ELSE 0

\* A plausible slip: each fade may take the whole active region.
MaxFadeEach_whole(activeLength) == activeLength

\* WaveformViewHelpers.cpp:40.
MaxFadeEach(activeLength) == activeLength \div 2

\* A plausible slip: the requested fade length is used unclamped.
ClampedFade_requested(fadeLengthFrames, maxFadeEach) == fadeLengthFrames

\* WaveformViewHelpers.cpp:42-43.
ClampedFade(fadeLengthFrames, maxFadeEach) == Min(fadeLengthFrames, maxFadeEach)

\* WaveformViewHelpers.cpp:49.
FadeOutStart(activeStart, activeEnd, clampedFadeOut) ==
    IF activeEnd > clampedFadeOut THEN SizeSub(activeEnd, clampedFadeOut) ELSE activeStart

(***************************************************************************)
(* computeTrimAndFadeRanges, WaveformViewHelpers.cpp:5-52.  The field      *)
(* wrapped records whether a std::size_t subtraction the call executed     *)
(* went below zero.                                                        *)
(***************************************************************************)
computeTrimAndFadeRanges(clipFrameCount, trimStartFrame, trimEndFrame, showFullExtent, fadeInLengthFrames, fadeOutLengthFrames) ==
    IF EmptyClip(clipFrameCount) THEN ZeroRanges
    ELSE
    LET effectiveTrimEnd == EffectiveTrimEnd(trimEndFrame, clipFrameCount)
        effectiveTrimStart == EffectiveTrimStart(trimStartFrame, effectiveTrimEnd)
        visibleStartFrame == IF showFullExtent THEN 0 ELSE effectiveTrimStart
        visibleEndFrame == IF showFullExtent THEN clipFrameCount ELSE effectiveTrimEnd
        activeStart == effectiveTrimStart
        activeEnd == effectiveTrimEnd
        activeLength == ActiveLength(activeStart, activeEnd)
        wrap22 == SizeUnderflows(effectiveTrimEnd, 1)
    IN  IF activeLength = 0
        THEN [ZeroRanges EXCEPT !.visibleStartFrame = visibleStartFrame,
                                !.visibleEndFrame = visibleEndFrame,
                                !.wrapped = wrap22]
        ELSE
        LET maxFadeEach == MaxFadeEach(activeLength)
            clampedFadeIn == ClampedFade(fadeInLengthFrames, maxFadeEach)
            clampedFadeOut == ClampedFade(fadeOutLengthFrames, maxFadeEach)
        IN  [visibleStartFrame |-> visibleStartFrame,
             visibleEndFrame |-> visibleEndFrame,
             fadeInStartFrame |-> activeStart,
             fadeInEndFrame |-> (activeStart + clampedFadeIn) % SizeWrap,
             fadeOutStartFrame |-> FadeOutStart(activeStart, activeEnd, clampedFadeOut),
             fadeOutEndFrame |-> activeEnd,
             wrapped |-> wrap22 \/ activeStart + clampedFadeIn >= SizeWrap]

(***************************************************************************)
(* The resolver's callers: any clip length, any trim and fade request,     *)
(* among them (size_t)-1 and the vector of the repository's own test.      *)
(***************************************************************************)
FrameCounts == 0..MaxFrameCount
TrimValues == (0..(MaxFrameCount + 1)) \cup {SizeMax}
FadeValues == (0..MaxFadeLen) \cup {SizeMax}

MakeArgs(fc, ts, te, full, fi, fo) ==
    [clipFrameCount |-> fc, trimStartFrame |-> ts, trimEndFrame |-> te,
     showFullExtent |-> full, fadeInLengthFrames |-> fi, fadeOutLengthFrames |-> fo]

\* WaveformViewHelpersTests.cpp:16-23, in both views.
TestVectors == {MakeArgs(100, 10, 90, full, 1000, 1000) : full \in BOOLEAN}

ResolverInputs ==
    {MakeArgs(fc, ts, te, full, fi, fo) :
        fc \in FrameCounts, ts \in TrimValues, te \in TrimValues,
        full \in BOOLEAN, fi \in FadeValues, fo \in FadeValues}
    \cup TestVectors

\* A caller about to resolve the ranges for some clip and request.
ResolverInit ==
    /\ rArgs \in ResolverInputs
    /\ rResult = ZeroRanges
    /\ rDone = FALSE

\* One call of the resolver.
Resolve ==
    /\ ~rDone
    /\ rResult' = computeTrimAndFadeRanges(rArgs.clipFrameCount, rArgs.trimStartFrame,
                                           rArgs.trimEndFrame, rArgs.showFullExtent,
                                           rArgs.fadeInLengthFrames,
                                           rArgs.fadeOutLengthFrames)
    /\ rDone' = TRUE
    /\ UNCHANGED <<rArgs, decimatorVars, dspVars, compVars, fadeVars, parVars,
                   lateVars>>

ResolverNext == Resolve

(***************************************************************************)
(* Claims about the resolver.                                              *)
(***************************************************************************)
SixIndices(r) ==
    {r.visibleStartFrame, r.visibleEndFrame, r.fadeInStartFrame, r.fadeInEndFrame,
     r.fadeOutStartFrame, r.fadeOutEndFrame}

\* The reference resolve() of the design, section 4.6, written from its text.
RefEffEnd(a) ==
    Max(IF a.trimEndFrame > 0 THEN Min(a.trimEndFrame, a.clipFrameCount)
        ELSE a.clipFrameCount, 1)
RefEffStart(a) == Min(a.trimStartFrame, RefEffEnd(a) - 1)
RefActive(a) == Max(0, RefEffEnd(a) - RefEffStart(a))
RefResolve(a) ==
    [visibleStartFrame |-> IF a.showFullExtent THEN 0 ELSE RefEffStart(a),
     visibleEndFrame |-> IF a.showFullExtent THEN a.clipFrameCount ELSE RefEffEnd(a),
     fadeInStartFrame |-> RefEffStart(a),
     fadeInEndFrame |-> RefEffStart(a) + Min(a.fadeInLengthFrames, RefActive(a) \div 2),
     fadeOutStartFrame |-> RefEffEnd(a) - Min(a.fadeOutLengthFrames, RefActive(a) \div 2),
     fadeOutEndFrame |-> RefEffEnd(a)]

SixOf(r) ==
    [visibleStartFrame |-> r.visibleStartFrame, visibleEndFrame |-> r.visibleEndFrame,
     fadeInStartFrame |-> r.fadeInStartFrame, fadeInEndFrame |-> r.fadeInEndFrame,
     fadeOutStartFrame |-> r.fadeOutStartFrame, fadeOutEndFrame |-> r.fadeOutEndFrame]

\* C2: for every input the resolver returns
\* 0 <= visibleStart <= visibleEnd <= frameCount, and all six returned
\* indices lie within [0, frameCount].
C2_IndicesWithinClip ==
    rDone =>
        /\ 0 <= rResult.visibleStartFrame
        /\ rResult.visibleStartFrame <= rResult.visibleEndFrame
        /\ rResult.visibleEndFrame <= rArgs.clipFrameCount
        /\ \A i \in SixIndices(rResult) : 0 <= i /\ i <= rArgs.clipFrameCount

\* A call whose trims both lie beyond the clip has returned.
C2_Witness ==
    /\ rDone
    /\ rArgs.clipFrameCount = MaxFrameCount
    /\ rArgs.trimEndFrame > rArgs.clipFrameCount
    /\ rArgs.trimStartFrame = SizeMax
    /\ ~rArgs.showFullExtent
    /\ rResult.visibleEndFrame = MaxFrameCount
    /\ rResult.visibleStartFrame = MaxFrameCount - 1

\* C3: for every input the fade-in and fade-out ranges never overlap:
\* fadeInStart <= fadeInEnd <= fadeOutStart <= fadeOutEnd, also when the
\* requested fade lengths exceed the clip or the active region.
C3_FadesNeverOverlap ==
    rDone =>
        /\ rResult.fadeInStartFrame <= rResult.fadeInEndFrame
        /\ rResult.fadeInEndFrame <= rResult.fadeOutStartFrame
        /\ rResult.fadeOutStartFrame <= rResult.fadeOutEndFrame

\* Both requested fades exceed the clip and the returned ranges meet at the
\* midpoint of the active region.
C3_Witness ==
    /\ rDone
    /\ rArgs.fadeInLengthFrames > rArgs.clipFrameCount
    /\ rArgs.fadeOutLengthFrames > rArgs.clipFrameCount
    /\ rResult.fadeInStartFrame < rResult.fadeInEndFrame
    /\ rResult.fadeInEndFrame = rResult.fadeOutStartFrame
    /\ rResult.fadeOutStartFrame < rResult.fadeOutEndFrame

\* C4: for frameCount > 0 both fade ranges lie inside the active trimmed
\* region [effStart, effEnd]: the fade-in starts at effStart, the fade-out
\* ends at effEnd, each has length min(requested, floor((effEnd-effStart)/2)),
\* and none of this depends on showFullExtent.
C4_FadesInsideActiveRegion ==
    (rDone /\ rArgs.clipFrameCount > 0) =>
        LET half == (RefEffEnd(rArgs) - RefEffStart(rArgs)) \div 2
            other == computeTrimAndFadeRanges(
                         rArgs.clipFrameCount, rArgs.trimStartFrame, rArgs.trimEndFrame,
                         ~rArgs.showFullExtent, rArgs.fadeInLengthFrames,
                         rArgs.fadeOutLengthFrames)
        IN  /\ rResult.fadeInStartFrame = RefEffStart(rArgs)
            /\ rResult.fadeOutEndFrame = RefEffEnd(rArgs)
            /\ rResult.fadeInEndFrame - rResult.fadeInStartFrame
                   = Min(rArgs.fadeInLengthFrames, half)
            /\ rResult.fadeOutEndFrame - rResult.fadeOutStartFrame
                   = Min(rArgs.fadeOutLengthFrames, half)
            /\ RefEffStart(rArgs) <= rResult.fadeInEndFrame
            /\ rResult.fadeOutStartFrame <= RefEffEnd(rArgs)
            /\ other.fadeInStartFrame = rResult.fadeInStartFrame
            /\ other.fadeInEndFrame = rResult.fadeInEndFrame
            /\ other.fadeOutStartFrame = rResult.fadeOutStartFrame
            /\ other.fadeOutEndFrame = rResult.fadeOutEndFrame

\* A trimmed clip shown in full extent, one fade capped at half the active
\* region and the other shorter than that.
C4_Witness ==
    /\ rDone
    /\ rArgs.showFullExtent
    /\ rArgs.trimStartFrame = 1
    /\ rArgs.trimEndFrame = MaxFrameCount - 1
    /\ rArgs.clipFrameCount = MaxFrameCount
    /\ rArgs.fadeInLengthFrames = 1
    /\ rArgs.fadeOutLengthFrames = SizeMax
    /\ rResult.fadeInEndFrame = 2
    /\ rResult.fadeOutStartFrame = MaxFrameCount - 1 - (MaxFrameCount - 2) \div 2

\* C5: for every input with frameCount > 0 the resolver equals the
\* reference resolve(); a degenerate trim (trimStart >= trimEnd > 0) is
\* clamped to a one-frame region, and (100, 10, 90, false, 1000, 1000)
\* yields visible [10,90), fade-in [10,50), fade-out [50,90).
C5_EqualsReference ==
    (rDone /\ rArgs.clipFrameCount > 0) =>
        /\ SixOf(rResult) = RefResolve(rArgs)
        /\ (rArgs.trimEndFrame > 0 /\ rArgs.trimStartFrame >= rArgs.trimEndFrame)
               => rResult.fadeOutEndFrame - rResult.fadeInStartFrame = 1
        /\ rArgs = MakeArgs(100, 10, 90, FALSE, 1000, 1000)
               => SixOf(rResult) =
                      [visibleStartFrame |-> 10, visibleEndFrame |-> 90,
                       fadeInStartFrame |-> 10, fadeInEndFrame |-> 50,
                       fadeOutStartFrame |-> 50, fadeOutEndFrame |-> 90]

\* The call of the repository's test has returned its expected ranges.
C5_Witness ==
    /\ rDone
    /\ rArgs = MakeArgs(100, 10, 90, FALSE, 1000, 1000)
    /\ rResult.visibleStartFrame = 10
    /\ rResult.fadeInEndFrame = 50
    /\ rResult.fadeOutStartFrame = 50

\* C6: with frameCount == 0 the resolver returns all six indices equal to 0
\* for every trim, view and fade request, and no subtraction wraps.
C6_EmptyClipAllZero ==
    (rDone /\ rArgs.clipFrameCount = 0) =>
        /\ SixIndices(rResult) = {0}
        /\ ~rResult.wrapped

\* An empty clip resolved with non-zero trims and fades.
C6_Witness ==
    /\ rDone
    /\ rArgs.clipFrameCount = 0
    /\ rArgs.trimStartFrame > 0
    /\ rArgs.trimEndFrame > 0
    /\ rArgs.fadeInLengthFrames = SizeMax
    /\ rArgs.fadeOutLengthFrames > 0
    /\ ~rArgs.showFullExtent
    /\ rResult = ZeroRanges

(***************************************************************************)
(* The waveform decimator, WaveformView::computeWaveformCache              *)
(* (WaveformView.cpp:249-326).  A sample is an integer amplitude; only the *)
(* order of the samples and the seed 0.0f matter to the min/max reduction. *)
(* samplesPerPixel_ is a double: the model holds it as a numerator over    *)
(* SppDen, and static_cast<int> of a non-negative product is a floor.      *)
(***************************************************************************)
MaxFrames == 2          \* clips of 0..MaxFrames frames are enumerated
MaxWidth == 3           \* widget widths 0..MaxWidth, and kParallelThreshold
SppDen == 2             \* resolution of samplesPerPixel_: multiples of 1/SppDen
MaxSppNum == 5          \* samplesPerPixel_ ranges over SppDen/SppDen..MaxSppNum/SppDen

\* WaveformView.cpp:267.
kParallelThreshold == 200

\* Negative full scale, silence, positive full scale.
SampleValues == {-1, 0, 1}

\* AudioClip::frameCount(), AudioClip.cpp:23-26.
frameCount(data, channels) ==
    IF channels = 0 THEN 0 ELSE Len(data) \div channels

\* samples[idx] with a 0-based index.
At(data, idx) == data[idx + 1]

\* static_cast<int>(x * samplesPerPixel_), WaveformView.cpp:301.
PixelToFrames(x, spp) == (x * spp) \div SppDen

\* std::clamp(v, lo, hi), defined for lo <= hi.
Clamp(v, lo, hi) == IF v < lo THEN lo ELSE IF hi < v THEN hi ELSE v

\* A plausible slip: every column starts at the scroll offset.
StartFrame_ignoresColumn(x, scroll, spp, nFrames) ==
    Clamp(scroll, 0, nFrames - 1)

\* WaveformView.cpp:301 and 304 (276 and 279 in the parallel path).
StartFrame(x, scroll, spp, nFrames) ==
    Clamp(scroll + PixelToFrames(x, spp), 0, nFrames - 1)

\* A plausible slip: every column reads a single frame.
EndFrame_oneFrame(x, scroll, spp, nFrames, startFrame) == startFrame + 1

\* WaveformView.cpp:302 and 305 (277 and 280 in the parallel path).
EndFrame(x, scroll, spp, nFrames, startFrame) ==
    Clamp(scroll + PixelToFrames(x + 1, spp), startFrame + 1, nFrames)

\* float minVal = 0.0f; float maxVal = 0.0f;  WaveformView.cpp:308-309.
EnvelopeSeed == [minVal |-> 0, maxVal |-> 0]

\* The loop over f, WaveformView.cpp:311-318: folds frames f..endFrame-1 of
\* channel ch into the running envelope acc.
RECURSIVE FoldFrames(_, _, _, _, _, _)
FoldFrames(data, channels, ch, f, endFrame, acc) ==
    IF f >= endFrame THEN acc
    ELSE LET idx == f * channels + ch
             next == IF idx < Len(data)
                     THEN [minVal |-> Min(acc.minVal, At(data, idx)),
                           maxVal |-> Max(acc.maxVal, At(data, idx))]
                     ELSE acc
         IN  FoldFrames(data, channels, ch, f + 1, endFrame, next)

\* One iteration of the sequential loop over x, WaveformView.cpp:300-322:
\* the cell written to channelCache_[ch][x].
SequentialColumn(data, channels, nFrames, scroll, spp, ch, x) ==
    LET startFrame == StartFrame(x, scroll, spp, nFrames)
        endFrame == EndFrame(x, scroll, spp, nFrames, startFrame)
    IN  FoldFrames(data, channels, ch, startFrame, endFrame, EnvelopeSeed)

\* One worker of the std::for_each(par_unseq), WaveformView.cpp:275-297: the
\* cell it writes to channelCache_[ch][x].  A worker reads samples,
\* scrollOffsetFrames_ and samplesPerPixel_, and writes its own column only.
ParallelColumn(data, channels, nFrames, scroll, spp, ch, x) ==
    LET startFrame == StartFrame(x, scroll, spp, nFrames)
        endFrame == EndFrame(x, scroll, spp, nFrames, startFrame)
    IN  FoldFrames(data, channels, ch, startFrame, endFrame, EnvelopeSeed)

\* channelCache_ when computeWaveformCache returns.
ComputedCache(data, channels, width, scroll, spp) ==
    LET nFrames == frameCount(data, channels)
    IN  IF Len(data) = 0 THEN <<>>
        ELSE [ch \in 0..(channels - 1) |->
                 [x \in 0..(width - 1) |->
                     IF width >= kParallelThreshold
                     THEN ParallelColumn(data, channels, nFrames, scroll, spp, ch, x)
                     ELSE SequentialColumn(data, channels, nFrames, scroll, spp, ch, x)]]

Widths == (0..MaxWidth) \cup {kParallelThreshold}
\* Whole frames only: the length is a multiple of the channel count.
Buffers(channels) ==
    UNION {[1..(n * channels) -> SampleValues] : n \in 0..MaxFrames}

\* A view holding some clip at some zoom and scroll position, its cache
\* not computed yet.
DecimatorInit ==
    /\ clipChannels \in {1, 2}
    /\ clipSamples \in Buffers(clipChannels)
    /\ widgetWidth \in Widths
    /\ scrollOffsetFrames \in (-1)..MaxFrames
    /\ samplesPerPixel \in SppDen..MaxSppNum
    /\ channelCache = <<>>
    /\ cacheValid = FALSE

\* paintEvent finding the cache invalid: WaveformView.cpp:210-212 and
\* computeWaveformCache, 249-326.
computeWaveformCache ==
    /\ ~cacheValid
    /\ channelCache' = ComputedCache(clipSamples, clipChannels, widgetWidth,
                                     scrollOffsetFrames, samplesPerPixel)
    /\ cacheValid' = TRUE
    /\ UNCHANGED <<clipSamples, clipChannels, widgetWidth, scrollOffsetFrames,
                   samplesPerPixel, resolverVars, dspVars, compVars, fadeVars, parVars,
                   lateVars>>

DecimatorNext == computeWaveformCache

\* The view before any clip is shown.
DecimatorIdle ==
    /\ clipChannels = 2
    /\ clipSamples = <<>>
    /\ widgetWidth = 0
    /\ scrollOffsetFrames = 0
    /\ samplesPerPixel = SppDen
    /\ channelCache = <<>>
    /\ cacheValid = FALSE

\* No resolver call in progress.
ResolverIdle ==
    /\ rArgs = MakeArgs(0, 0, 0, FALSE, 0, 0)
    /\ rResult = ZeroRanges
    /\ rDone = FALSE

(***************************************************************************)
(* Claims about the decimator.                                             *)
(***************************************************************************)
\* The source frame range of column x as the design states it (section
\* 4.5): [scrollOffset + x*spp, scrollOffset + (x+1)*spp), clamped to
\* [0, frameCount).
SourceFrames(x) ==
    {f \in 0..(frameCount(clipSamples, clipChannels) - 1) :
        /\ scrollOffsetFrames + (x * samplesPerPixel) \div SppDen <= f
        /\ f < scrollOffsetFrames + ((x + 1) * samplesPerPixel) \div SppDen}

\* C1: decimator conservativeness: after computeWaveformCache, for every
\* column x in [0, width) and every channel, each sample of that channel
\* inside the column's source frame range lies within the column's stored
\* [minVal, maxVal], in the sequential and in the parallel path.
C1_Conservative ==
    (cacheValid /\ Len(clipSamples) > 0) =>
        \A ch \in 0..(clipChannels - 1) : \A x \in 0..(widgetWidth - 1) :
            \A f \in SourceFrames(x) :
                LET s == At(clipSamples, f * clipChannels + ch)
                IN  /\ channelCache[ch][x].minVal <= s
                    /\ s <= channelCache[ch][x].maxVal

\* The parallel path has summarised a stereo clip whose first column spans
\* two frames, one negative and one positive on the second channel.
C1_Witness ==
    /\ cacheValid
    /\ widgetWidth = kParallelThreshold
    /\ clipChannels = 2
    /\ Cardinality(SourceFrames(0)) = 2
    /\ At(clipSamples, 1) = -1
    /\ At(clipSamples, 3) = 1
    /\ channelCache[1][0] = [minVal |-> -1, maxVal |-> 1]

\* The samples of channel ch in the frames of a set.
ChannelSamples(frames, ch) ==
    {At(clipSamples, f * clipChannels + ch) : f \in frames}

\* C24: for every column and channel, the stored minVal and maxVal equal
\* exactly the minimum and the maximum of that channel's samples over the
\* column's source frame range (not merely bounds on them).
C24_EnvelopeIsExact ==
    (cacheValid /\ Len(clipSamples) > 0) =>
        \A ch \in 0..(clipChannels - 1) : \A x \in 0..(widgetWidth - 1) :
            SourceFrames(x) # {} =>
                LET inRange == ChannelSamples(SourceFrames(x), ch)
                IN  /\ channelCache[ch][x].minVal \in inRange
                    /\ channelCache[ch][x].maxVal \in inRange
                    /\ \A s \in inRange : /\ channelCache[ch][x].minVal <= s
                                          /\ s <= channelCache[ch][x].maxVal

\* The frames whose samples the loop over f reads for column x,
\* WaveformView.cpp:311-313 (286-288 in the parallel path).
FramesRead(data, channels, scroll, spp, x) ==
    LET nFrames == frameCount(data, channels)
        startFrame == StartFrame(x, scroll, spp, nFrames)
        endFrame == EndFrame(x, scroll, spp, nFrames, startFrame)
    IN  {f \in startFrame..(endFrame - 1) :
            \A ch \in 0..(channels - 1) : f * channels + ch < Len(data)}

\* The frames read for column x of the view.
ColumnFrames(x) ==
    FramesRead(clipSamples, clipChannels, scrollOffsetFrames, samplesPerPixel, x)

\* C25 as stated: for every column x in [0, width), the frames the
\* decimator summarizes are exactly the frames f with
\* scrollOffset + floor(x*spp) <= f < scrollOffset + floor((x+1)*spp) and
\* 0 <= f < frameCount; with spp == 1 column x reads exactly the single
\* frame scrollOffset + x.
C25_Original ==
    (cacheValid /\ Len(clipSamples) > 0) =>
        \A x \in 0..(widgetWidth - 1) :
            /\ ColumnFrames(x) = SourceFrames(x)
            /\ samplesPerPixel = SppDen => ColumnFrames(x) = {scrollOffsetFrames + x}

\* C25, amended: a column whose source frame range holds a frame of the
\* clip reads exactly the frames of that range; a column whose range lies
\* wholly before the clip reads frame 0 alone and one whose range lies
\* wholly beyond its end reads the last frame alone; with spp == 1 column
\* x reads the single frame scrollOffset + x clamped into
\* [0, frameCount - 1].
C25_ColumnsReadClampedRange ==
    (cacheValid /\ Len(clipSamples) > 0) =>
        \A x \in 0..(widgetWidth - 1) :
            LET nFrames == frameCount(clipSamples, clipChannels)
                first == scrollOffsetFrames + (x * samplesPerPixel) \div SppDen
                beyond == scrollOffsetFrames + ((x + 1) * samplesPerPixel) \div SppDen
            IN  /\ SourceFrames(x) # {} => ColumnFrames(x) = SourceFrames(x)
                /\ (SourceFrames(x) = {} /\ beyond <= 0) => ColumnFrames(x) = {0}
                /\ (SourceFrames(x) = {} /\ first >= nFrames) =>
                        ColumnFrames(x) = {nFrames - 1}
                /\ SourceFrames(x) = {} => (beyond <= 0 \/ first >= nFrames)
                /\ samplesPerPixel = SppDen =>
                        ColumnFrames(x) = {Clamp(scrollOffsetFrames + x, 0, nFrames - 1)}

\* A clip of two frames shown one frame per pixel in a view three pixels
\* wide: the last column's range lies beyond the clip, and the column
\* holds the last frame's sample.
C25_Witness ==
    /\ cacheValid
    /\ clipChannels = 1
    /\ clipSamples = <<0, 1>>
    /\ widgetWidth = 3
    /\ scrollOffsetFrames = 0
    /\ samplesPerPixel = SppDen
    /\ SourceFrames(2) = {}
    /\ ColumnFrames(2) = {1}
    /\ channelCache[0][2] = [minVal |-> 0, maxVal |-> 1]

(***************************************************************************)
(* The level meter and the gain normalizer, utils/DSP.cpp:8-81.            *)
(*                                                                         *)
(* Floats are held in the logarithmic domain.  A linear value is zero, a   *)
(* signed magnitude 10^(db/2000), an infinity or a NaN; a level in  *)
(* dB is a number of hundredths of a dB, an infinity or a NaN.  On this    *)
(* grid 20*log10 and pow(10, x/20) are exact, and what the model keeps of  *)
(* float arithmetic is the kEpsilon floor, overflow to infinity, underflow *)
(* to zero and the NaN of 0 * inf.                                         *)
(***************************************************************************)
MaxLen == 3             \* buffers of 0..MaxLen samples are enumerated
MaxCalls == 2           \* normalize calls made in a row on one buffer
\* A level of x dB: levels are held in hundredths of a dB.
Db(x) == 100 * x

\* constexpr float kEpsilon = 1e-9f, as a level: 20*log10(1e-9) = -180 dB.
kEpsilonDb == Db(-180)

\* 20*log10(FLT_MAX) = 770.6 dB: a float beyond it is an infinity.
FloatMaxDb == 77060

\* 20*log10 of the smallest denormal float, -897 dB: a float below it is 0.
FloatMinDb == -89700

\* constexpr size_t kParallelThreshold = 10000, DSP.cpp:13.
DSP_kParallelThreshold == 10000

LZero == [k |-> "zero", sgn |-> 0, db |-> 0]
LNum(sgn, db) == [k |-> "num", sgn |-> sgn, db |-> db]
LInf(sgn) == [k |-> "inf", sgn |-> sgn, db |-> 0]
LNaN == [k |-> "nan", sgn |-> 0, db |-> 0]

DbNum(v) == [k |-> "num", v |-> v]
DbNegInf == [k |-> "-inf", v |-> 0]
DbPosInf == [k |-> "+inf", v |-> 0]
DbNaN == [k |-> "nan", v |-> 0]

kEpsilon == LNum(1, kEpsilonDb)

\* The place of a linear value that is no NaN on the real line.
Ord(x) ==
    CASE x.k = "zero" -> 0
      [] x.k = "num" -> x.sgn * (x.db - FloatMinDb + 1)
      [] x.k = "inf" -> x.sgn * (FloatMaxDb - FloatMinDb + 2)

\* a < b on floats: false when either is a NaN.
FLess(a, b) == a.k # "nan" /\ b.k # "nan" /\ Ord(a) < Ord(b)

\* std::max(a, b): (a < b) ? b : a.
FMax(a, b) == IF FLess(a, b) THEN b ELSE a

\* std::abs(s).
FAbs(s) == IF s.k \in {"num", "inf"} THEN [s EXCEPT !.sgn = 1] ELSE s

\* s * g on floats, g >= 0.
FMul(s, g) ==
    CASE s.k = "nan" \/ g.k = "nan" -> LNaN
      [] (s.k = "zero" /\ g.k = "inf") \/ (s.k = "inf" /\ g.k = "zero") -> LNaN
      [] s.k = "zero" \/ g.k = "zero" -> LZero
      [] s.k = "inf" \/ g.k = "inf" -> LInf(s.sgn * g.sgn)
      [] OTHER -> IF s.db + g.db > FloatMaxDb THEN LInf(s.sgn * g.sgn)
                  ELSE IF s.db + g.db < FloatMinDb THEN LZero
                  ELSE LNum(s.sgn * g.sgn, s.db + g.db)

\* a - b on float levels.
DbSub(a, b) ==
    CASE a.k = "nan" \/ b.k = "nan" -> DbNaN
      [] a.k = "num" /\ b.k = "num" -> DbNum(a.v - b.v)
      [] a.k = b.k -> DbNaN
      [] a.k = "+inf" \/ b.k = "-inf" -> DbPosInf
      [] OTHER -> DbNegInf

\* a < b on float levels.
DbLess(a, b) ==
    CASE a.k = "nan" \/ b.k = "nan" -> FALSE
      [] a.k = "num" /\ b.k = "num" -> a.v < b.v
      [] OTHER -> a.k # b.k /\ (a.k = "-inf" \/ b.k = "+inf")

\* A plausible slip: the power ratio 10^(db/10) for the amplitude ratio.
dbToLinear_powerRatio(db) ==
    CASE db.k = "nan" -> LNaN
      [] db.k = "-inf" -> LZero
      [] db.k = "+inf" -> LInf(1)
      [] OTHER -> IF 2 * db.v > FloatMaxDb THEN LInf(1)
                  ELSE IF 2 * db.v < FloatMinDb THEN LZero
                  ELSE LNum(1, 2 * db.v)

\* dbToLinear: std::pow(10.0f, db / 20.0f), DSP.cpp:9.
dbToLinear(db) ==
    CASE db.k = "nan" -> LNaN
      [] db.k = "-inf" -> LZero
      [] db.k = "+inf" -> LInf(1)
      [] OTHER -> IF db.v > FloatMaxDb THEN LInf(1)
                  ELSE IF db.v < FloatMinDb THEN LZero
                  ELSE LNum(1, db.v)

\* 20.0f * std::log10(m) for m > 0 or a NaN.
TwentyLog10(m) ==
    CASE m.k = "num" -> DbNum(m.db)
      [] m.k = "inf" -> DbPosInf
      [] m.k = "zero" -> DbNegInf
      [] OTHER -> DbNaN

\* A plausible slip: the level is taken without the kEpsilon floor.
linearToDb_noFloor(lin) == TwentyLog10(lin)

\* linearToDb: 20.0f * std::log10(std::max(lin, kEpsilon)), DSP.cpp:10.
linearToDb(lin) == TwentyLog10(FMax(lin, kEpsilon))

\* The loop of DSP.cpp:30: peak = std::max(peak, std::abs(s)), from 0.0f.
RECURSIVE SequentialPeak(_, _, _)
SequentialPeak(buf, i, peak) ==
    IF i > Len(buf) THEN peak
    ELSE SequentialPeak(buf, i + 1, FMax(peak, FAbs(buf[i])))

\* The std::transform_reduce of DSP.cpp:22-28: the maximum of 0.0f and the
\* magnitudes, here in the grouping of the left fold.  The buffers of the
\* normalizer's specification stay below the threshold; the other
\* groupings are those of ReduceChunk and ReduceJoin.
ParallelPeak(buf) == SequentialPeak(buf, 1, LZero)

\* 10*log10(k/n) in hundredths of a dB, 1 <= k <= n <= 6.
TenLog10Ratio(k, n) ==
    <<  <<0>>,
        <<-301, 0>>,
        <<-477, -176, 0>>,
        <<-602, -301, -125, 0>>,
        <<-699, -398, -222, -97, 0>>,
        <<-778, -477, -301, -176, -79, 0>>  >>[n][k]

\* std::sqrt(sumSq / samples.size()) cast to float, DSP.cpp:38-52.  The sum
\* of squares is a double; of the finite samples only the loudest add to it
\* at this resolution (the enumerated magnitudes lie 60 dB apart, and a
\* sample 60 dB down adds 0.000004 dB), so the mean square is
\* (k/n) * loudest^2 with k the number of loudest samples.
RmsOf(buf) ==
    LET idx == 1..Len(buf)
        nums == {i \in idx : buf[i].k = "num"}
        top == CHOOSE d \in {buf[i].db : i \in nums} :
                   \A i \in nums : buf[i].db <= d
        k == Cardinality({i \in nums : buf[i].db = top})
        db == top + TenLog10Ratio(k, Len(buf))
    IN  CASE \E i \in idx : buf[i].k = "nan" -> LNaN
          [] \E i \in idx : buf[i].k = "inf" -> LInf(1)
          [] nums = {} -> LZero
          [] OTHER -> IF db < FloatMinDb THEN LZero ELSE LNum(1, db)

\* DSP::computePeakDbFS, DSP.cpp:16-33.
computePeakDbFS(buf) ==
    IF Len(buf) = 0 THEN DbNegInf
    ELSE linearToDb(IF Len(buf) >= DSP_kParallelThreshold
                    THEN ParallelPeak(buf)
                    ELSE SequentialPeak(buf, 1, LZero))

\* DSP::computeRMSDb, DSP.cpp:35-53.
computeRMSDb(buf) ==
    IF Len(buf) = 0 THEN DbNegInf
    ELSE linearToDb(RmsOf(buf))

\* A plausible slip: the gain is taken from current to target the wrong
\* way round.
GainDb_reversed(target, currentDb) == DbSub(currentDb, DbNum(target))

\* float gainDb = targetDbFS - currentPeakDb, DSP.cpp:57 and 71.
GainDb(target, currentDb) == DbSub(DbNum(target), currentDb)

\* for (float& s : samples) s *= gain, DSP.cpp:60-66 and 74-80; the
\* parallel std::for_each scales each sample once as well.
ApplyGain(buf, g) == [i \in 1..Len(buf) |-> FMul(buf[i], g)]

\* The sample values enumerated: silence, +-1.0 (full scale), 1e-6,
\* -1e-9 (kEpsilon in magnitude) and 1e-12 (below kEpsilon).
DspSampleValues ==
    {LZero, LNum(1, 0), LNum(-1, 0), LNum(1, Db(-120)),
     LNum(-1, kEpsilonDb), LNum(1, Db(-240))}

DspBuffers == UNION {[1..n -> DspSampleValues] : n \in 0..MaxLen}

\* Targets: 0 dBFS, -3 dBFS, the kEpsilon level, a level below it, and a
\* level so high that the gain computed for silence overflows.
Targets == {0, Db(-3), kEpsilonDb, Db(-200), Db(600)}

NoMetrics == [fresh |-> FALSE, peakDb |-> DbNaN, rmsDb |-> DbNaN]

\* A loaded buffer no DSP function has touched.
DspInit ==
    /\ samples \in DspBuffers
    /\ original = samples
    /\ targetDb \in Targets
    /\ calls = <<>>
    /\ prevSamples = samples
    /\ gainDb = DbNum(0)
    /\ gain = LNum(1, 0)
    /\ scaled = 0
    /\ metrics = NoMetrics

\* The body shared by normalizeToPeak and normalizeToRMS once the level is
\* measured: DSP.cpp:57-66 and 71-80.
Normalize(name, currentDb) ==
    /\ Len(calls) < MaxCalls
    /\ gainDb' = GainDb(targetDb, currentDb)
    /\ gain' = dbToLinear(gainDb')
    /\ samples' = ApplyGain(samples, gain')
    /\ scaled' = Len(samples)
    /\ prevSamples' = samples
    /\ calls' = Append(calls, name)
    /\ metrics' = NoMetrics
    /\ UNCHANGED <<original, targetDb, resolverVars, decimatorVars, compVars, fadeVars,
                   parVars,
                   lateVars>>

\* DSP::normalizeToPeak, DSP.cpp:55-67.
normalizeToPeak == Normalize("peak", computePeakDbFS(samples))

\* DSP::normalizeToRMS, DSP.cpp:69-81.
normalizeToRMS == Normalize("rms", computeRMSDb(samples))

\* AudioEngine::refreshMetrics, AudioEngine.cpp:76-80.
refreshMetrics ==
    /\ ~metrics.fresh
    /\ metrics' = [fresh |-> TRUE, peakDb |-> computePeakDbFS(samples),
                   rmsDb |-> computeRMSDb(samples)]
    /\ UNCHANGED <<samples, original, targetDb, calls, prevSamples, gainDb, gain, scaled,
                   resolverVars, decimatorVars, compVars, fadeVars, parVars,
                   lateVars>>

DspNext == normalizeToPeak \/ normalizeToRMS \/ refreshMetrics

\* No buffer loaded.
DspIdle ==
    /\ samples = <<>>
    /\ original = <<>>
    /\ targetDb = 0
    /\ calls = <<>>
    /\ prevSamples = <<>>
    /\ gainDb = DbNum(0)
    /\ gain = LNum(1, 0)
    /\ scaled = 0
    /\ metrics = NoMetrics

(***************************************************************************)
(* Claims about the level meter and the normalizer.                        *)
(***************************************************************************)
LastCall == calls[Len(calls)]

\* Every sample is zero or a finite non-zero float.
Finite(buf) == \A i \in 1..Len(buf) : buf[i].k \in {"zero", "num"}

\* A non-empty buffer of finite samples, at least one of them non-zero.
NonSilent(buf) == Finite(buf) /\ \E i \in 1..Len(buf) : buf[i].k = "num"

\* A non-empty buffer of zeros.
AllZero(buf) == Len(buf) > 0 /\ \A i \in 1..Len(buf) : buf[i] = LZero

\* Some sample's magnitude is at least kEpsilon.
PeakAtLeastEpsilon(buf) ==
    Finite(buf) /\ \E i \in 1..Len(buf) : buf[i].k = "num" /\ buf[i].db >= kEpsilonDb

\* The root mean square of the buffer is at least kEpsilon.
RmsAtLeastEpsilon(buf) ==
    NonSilent(buf) /\ RmsOf(buf).k = "num" /\ RmsOf(buf).db >= kEpsilonDb

\* C7 as stated: for any non-empty buffer holding at least one non-zero
\* sample and any target, after normalizeToPeak the measured peak level
\* equals the target (and likewise the measured RMS after normalizeToRMS).
C7_Original ==
    (Len(calls) = 1 /\ metrics.fresh /\ NonSilent(original)) =>
        /\ LastCall = "peak" => metrics.peakDb = DbNum(targetDb)
        /\ LastCall = "rms" => metrics.rmsDb = DbNum(targetDb)

\* C7, amended: for any non-empty buffer of finite samples whose peak
\* magnitude is at least kEpsilon (1e-9, -180 dB), and any target of at
\* least -180 dB for which the gain and every scaled sample are finite
\* floats, after normalizeToPeak the measured peak level equals the target;
\* likewise the measured RMS level after normalizeToRMS when the buffer's
\* RMS is at least kEpsilon.
C7_NormalizeReachesTarget ==
    (/\ Len(calls) >= 1
     /\ metrics.fresh
     /\ targetDb >= kEpsilonDb
     /\ gain.k = "num"
     /\ Finite(samples)) =>
        /\ (LastCall = "peak" /\ PeakAtLeastEpsilon(prevSamples))
               => metrics.peakDb = DbNum(targetDb)
        /\ (LastCall = "rms" /\ RmsAtLeastEpsilon(prevSamples))
               => metrics.rmsDb = DbNum(targetDb)

\* A buffer peaking at 1e-6, with a silent and a quieter sample beside it,
\* has been raised to 0 dBFS and measured.
C7_Witness ==
    /\ calls = <<"peak">>
    /\ metrics.fresh
    /\ targetDb = 0
    /\ original = <<LZero, LNum(1, Db(-120)), LNum(-1, kEpsilonDb)>>
    /\ gainDb = DbNum(Db(120))
    /\ samples = <<LZero, LNum(1, 0), LNum(-1, Db(-60))>>
    /\ metrics.peakDb = DbNum(0)

\* C8 as stated: normalizeToPeak and normalizeToRMS on an empty buffer are
\* no-ops, and on a non-empty all-zero buffer they skip scaling: no gain
\* derived from the silent level is applied to the samples and every
\* sample stays 0.
C8_SilentSkipsScaling ==
    Len(calls) >= 1 =>
        /\ Len(prevSamples) = 0 => (samples = <<>> /\ scaled = 0)
        /\ AllZero(prevSamples) => (scaled = 0 /\ samples = prevSamples)

\* C9 as stated: for any non-empty, non-silent buffer and any target, a
\* second normalizeToPeak with the same target applies a gain of 0 dB and
\* leaves the buffer unchanged.
C9_Original ==
    (calls = <<"peak", "peak">> /\ NonSilent(original)) =>
        /\ gainDb = DbNum(0)
        /\ samples = prevSamples

\* C9, amended: for any non-empty buffer of finite samples whose peak
\* magnitude is at least kEpsilon, and any target of at least -180 dB for
\* which the first call's gain and scaled samples are finite floats, a
\* second normalizeToPeak with the same target applies a gain of 0 dB and
\* leaves the buffer unchanged.
C9_SecondNormalizeIsIdentity ==
    (/\ calls = <<"peak", "peak">>
     /\ PeakAtLeastEpsilon(original)
     /\ targetDb >= kEpsilonDb
     /\ Finite(prevSamples)) =>
        /\ gainDb = DbNum(0)
        /\ gain = LNum(1, 0)
        /\ samples = prevSamples

\* A full-scale buffer normalized twice to -3 dBFS: the first call changed
\* it, the second did not.
C9_Witness ==
    /\ calls = <<"peak", "peak">>
    /\ targetDb = Db(-3)
    /\ original = <<LNum(-1, 0), LNum(1, Db(-120))>>
    /\ prevSamples = <<LNum(-1, Db(-3)), LNum(1, Db(-123))>>
    /\ samples = prevSamples
    /\ gainDb = DbNum(0)

\* What the level meter returns for an empty buffer.
EmptyBufferLevel == computePeakDbFS(<<>>)

MaxCompLen == 3         \* buffers of 0..MaxCompLen samples are enumerated

RECURSIVE Pow2(_)
Pow2(n) == IF n <= 0 THEN 1 ELSE 2 * Pow2(n - 1)

\* The amplitude step of the enumerated samples, and 1.0f (full scale).
LinStep == Pow2(MaxCompLen)
LinOne == 4 * LinStep

\* 20*log10(2) in hundredths of a dB.
TwoDb == 602

\* floor(log2(v)) for v >= 1.
RECURSIVE Log2Floor(_)
Log2Floor(v) == IF v < 2 THEN 0 ELSE 1 + Log2Floor(v \div 2)

\* 20*log10(v / LinOne) in hundredths of a dB for an amplitude v >= 1: exact
\* at the powers of two, interpolated in between, strictly increasing.
LevelOfInt(v) ==
    LET k == Log2Floor(v)
    IN  TwoDb * k + (TwoDb * (v - Pow2(k))) \div Pow2(k) - TwoDb * Log2Floor(LinOne)

\* The float holding the amplitude v / LinOne.
ToFloat(v) ==
    IF v = 0 THEN LZero
    ELSE IF v > 0 THEN LNum(1, LevelOfInt(v))
    ELSE LNum(-1, LevelOfInt(-v))

\* The float env of the envelope follower: a finite amplitude, an infinity
\* or a NaN.
EnvNum(v) == [k |-> "num", v |-> v]
EnvPosInf == [k |-> "+inf", v |-> 0]
EnvNegInf == [k |-> "-inf", v |-> 0]
EnvNaN == [k |-> "nan", v |-> 0]

EnvToFloat(env) ==
    CASE env.k = "num" -> ToFloat(env.v)
      [] env.k = "+inf" -> LInf(1)
      [] env.k = "-inf" -> LInf(-1)
      [] OTHER -> LNaN

\* A smoothing coefficient: num/CoeffDen, or +infinity.
CoeffDen == 2
Coeff(num) == [k |-> "num", num |-> num]
CoeffInf == [k |-> "+inf", num |-> 0]

\* The sample rate of a loaded clip.
NominalRate == 48000

\* The attack and release times a caller may hand over, named by what
\* std::exp(-1.0f / (0.001f * ms * sampleRate)) makes of them at NominalRate:
\*   "zero"       0 ms:                   exp(-1/0) = exp(-inf) = 0
\*   "halfLife"   0.001*ms*rate = 1/ln 2: exp(-ln 2) = 1/2
\*   "huge"       1e9 ms:                 exp(-2e-11) rounds to 1.0f
\*   "negTiny"    -1e-5 ms:               exp(2083) = +inf
TimesMs == {"zero", "halfLife", "huge", "negTiny"}
PositiveTimesMs == {"halfLife", "huge"}

\* std::exp(-1.0f / (0.001f * ms * sampleRate)), DSP.cpp:89-90.
EnvelopeCoeff(ms, sampleRate) ==
    IF sampleRate = NominalRate
    THEN CASE ms = "zero" -> Coeff(0)
           [] ms = "halfLife" -> Coeff(1)
           [] ms = "huge" -> Coeff(2)
           [] OTHER -> CoeffInf
    ELSE IF sampleRate = 0
    THEN \* 0.001f * ms * 0 is +0 or -0: exp(-inf) or exp(+inf)
         IF ms = "negTiny" THEN CoeffInf ELSE Coeff(0)
    ELSE \* sampleRate = -1: the time constant changes sign and shrinks
         IF ms = "negTiny" THEN Coeff(0)
         ELSE IF ms = "huge" THEN Coeff(2)
         ELSE CoeffInf

\* coeff * (env - framePeak) + framePeak on floats, framePeak finite.
Follow(coeff, env, framePeak) ==
    CASE env.k = "nan" -> EnvNaN
      [] env.k = "num" /\ coeff.k = "num" ->
            EnvNum((coeff.num * (env.v - framePeak)) \div CoeffDen + framePeak)
      [] env.k = "num" /\ env.v > framePeak -> EnvPosInf
      [] env.k = "num" /\ env.v < framePeak -> EnvNegInf
      [] env.k = "num" -> EnvNaN       \* inf * 0
      [] coeff.k = "num" /\ coeff.num = 0 -> EnvNaN     \* 0 * inf
      [] OTHER -> env

\* framePeak > env on floats.
PeakAbove(framePeak, env) ==
    CASE env.k = "num" -> framePeak > env.v
      [] env.k = "-inf" -> TRUE
      [] OTHER -> FALSE

\* A plausible slip: the difference taken the other way round.
EnvStep_swapped(env, framePeak, attackCoeff, releaseCoeff) ==
    IF PeakAbove(framePeak, env)
    THEN IF env.k = "num"
         THEN Follow(attackCoeff, EnvNum(2 * framePeak - env.v), framePeak)
         ELSE Follow(attackCoeff, env, framePeak)
    ELSE Follow(releaseCoeff, env, framePeak)

\* DSP.cpp:95: env = framePeak > env ? attackCoeff * (env - framePeak) + framePeak
\*                                   : releaseCoeff * (env - framePeak) + framePeak.
EnvStep(env, framePeak, attackCoeff, releaseCoeff) ==
    IF PeakAbove(framePeak, env)
    THEN Follow(attackCoeff, env, framePeak)
    ELSE Follow(releaseCoeff, env, framePeak)

\* The ratio as a fraction num/den.
Ratio(num, den) == [num |-> num, den |-> den]

\* overDb / ratio on float levels, ratio > 0.
DbDiv(a, ratio) ==
    IF a.k = "num" THEN DbNum((a.v * ratio.den) \div ratio.num) ELSE a

\* -a on float levels.
DbNeg(a) ==
    CASE a.k = "num" -> DbNum(-a.v)
      [] a.k = "+inf" -> DbNegInf
      [] a.k = "-inf" -> DbPosInf
      [] OTHER -> DbNaN

\* samples[idx], 0-based; past the end of the vector the read is undefined
\* behaviour and yields whatever lies there, oob.
ReadSample(buf, idx, oob) == IF idx < Len(buf) THEN buf[idx + 1] ELSE oob

\* A plausible slip: the channel loop runs one channel too far.
FrameIndices_oneMore(i, channels) == {i + c : c \in 0..channels}

\* The indices i + c of one frame, DSP.cpp:94 and 103.
FrameIndices(i, channels) == {i + c : c \in 0..(channels - 1)}

\* DSP.cpp:93-94: framePeak = max over the frame of std::abs(samples[i + c]).
FramePeak(buf, i, channels, oob) ==
    LET mags == {IF ReadSample(buf, idx, oob) < 0 THEN -ReadSample(buf, idx, oob)
                 ELSE ReadSample(buf, idx, oob) : idx \in FrameIndices(i, channels)}
    IN  CHOOSE m \in mags \cup {0} : \A n \in mags : n <= m

\* A plausible slip: the whole overshoot is taken off, whatever the ratio.
ReductionDb_hardLimit(env, thresholdDb, ratio) ==
    IF FLess(dbToLinear(DbNum(thresholdDb)), EnvToFloat(env))
    THEN DbSub(linearToDb(EnvToFloat(env)), DbNum(thresholdDb))
    ELSE DbNum(0)

\* A plausible slip: the expansion reducedDb - overDb for overDb - reducedDb.
ReductionDb_reversed(env, thresholdDb, ratio) ==
    IF FLess(dbToLinear(DbNum(thresholdDb)), EnvToFloat(env))
    THEN LET overDb == DbSub(linearToDb(EnvToFloat(env)), DbNum(thresholdDb))
         IN  DbSub(DbDiv(overDb, ratio), overDb)
    ELSE DbNum(0)

\* DSP.cpp:97-100: overDb - reducedDb when env > thresholdLin, the gain
\* reduction in dB; 0 when the envelope is not above the threshold.
ReductionDb(env, thresholdDb, ratio) ==
    IF FLess(dbToLinear(DbNum(thresholdDb)), EnvToFloat(env))
    THEN LET overDb == DbSub(linearToDb(EnvToFloat(env)), DbNum(thresholdDb))
         IN  DbSub(overDb, DbDiv(overDb, ratio))
    ELSE DbNum(0)

\* DSP.cpp:96-102: float gain = 1.0f, or dbToLinear(-(overDb - reducedDb)).
FrameGain(env, thresholdDb, ratio) ==
    IF FLess(dbToLinear(DbNum(thresholdDb)), EnvToFloat(env))
    THEN dbToLinear(DbNeg(ReductionDb(env, thresholdDb, ratio)))
    ELSE LNum(1, 0)

\* A plausible slip: only the channel count is validated.
InvalidParameters_channelsOnly(sampleRate, channels) == channels <= 0

\* DSP.cpp:86: if (sampleRate <= 0 || channels <= 0) return;
InvalidParameters(sampleRate, channels) == sampleRate <= 0 \/ channels <= 0

\* What a call that returns at DSP.cpp:86 leaves behind.
Untouched(buf) ==
    [out |-> [j \in 1..Len(buf) |-> ToFloat(buf[j])],
     env |-> <<>>, gain |-> <<>>, reduction |-> <<>>, touched |-> {}, oob |-> 0]

\* A plausible slip: the gain reduction reaches the first channel only.
ChannelFactor_firstChannelOnly(frameGain, makeupLin, c) ==
    IF c = 0 THEN FMul(frameGain, makeupLin) ELSE makeupLin

\* DSP.cpp:103: samples[i + c] *= gain * makeupLin, the factor channel c of
\* the frame is multiplied by.
ChannelFactor(frameGain, makeupLin, c) == FMul(frameGain, makeupLin)

\* The loop of DSP.cpp:92-104 from frame index i on, env the envelope so
\* far and acc what the frames before i did.
RECURSIVE CompressFrames(_, _, _, _, _)
CompressFrames(a, oob, i, env, acc) ==
    IF i >= Len(a.samples) THEN acc
    ELSE LET framePeak == FramePeak(a.samples, i, a.channels, oob)
             env2 == EnvStep(env, framePeak,
                             EnvelopeCoeff(a.attackMs, a.sampleRate),
                             EnvelopeCoeff(a.releaseMs, a.sampleRate))
             frameGain == FrameGain(env2, a.thresholdDb, a.ratio)
             makeupLin == dbToLinear(DbNum(a.makeupDb))
             frame == FrameIndices(i, a.channels)
         IN  CompressFrames(a, oob, i + a.channels, env2,
                 [acc EXCEPT
                     !.out = [j \in 1..Len(a.samples) |->
                                 IF (j - 1) \in frame
                                 THEN FMul(ToFloat(a.samples[j]),
                                           ChannelFactor(frameGain, makeupLin, j - 1 - i))
                                 ELSE acc.out[j]],
                     !.env = Append(acc.env, env2),
                     !.gain = Append(acc.gain, frameGain),
                     !.reduction = Append(acc.reduction,
                                          ReductionDb(env2, a.thresholdDb, a.ratio)),
                     !.touched = acc.touched \cup frame])

\* DSP::compressor, DSP.cpp:83-105.
compressorResult(a, oob) ==
    IF InvalidParameters(a.sampleRate, a.channels) THEN Untouched(a.samples)
    ELSE LET r == CompressFrames(a, oob, 0, EnvNum(0), Untouched(a.samples))
         IN  [r EXCEPT !.oob = IF r.touched \subseteq 0..(Len(a.samples) - 1)
                                THEN 0 ELSE oob]

CompSampleValues == {0, -LinStep, LinOne}
CompThresholds == {0, -2 * TwoDb, -4 * TwoDb}
CompRatios == {Ratio(1, 2), Ratio(1, 1), Ratio(2, 1), Ratio(4, 1)}
CompMakeups == {0, TwoDb}

CompArgs(buf, thr, ratio, att, rel, makeup, rate, ch) ==
    [samples |-> buf, thresholdDb |-> thr, ratio |-> ratio, attackMs |-> att,
     releaseMs |-> rel, makeupDb |-> makeup, sampleRate |-> rate, channels |-> ch]

\* Buffers of whole frames.
CompBuffers(channels) ==
    UNION {[1..n -> CompSampleValues] : n \in {m \in 0..MaxCompLen : m % channels = 0}}

\* Buffers of any length.
CompBuffersAnyLength == UNION {[1..n -> CompSampleValues] : n \in 0..MaxCompLen}

\* Calls on a clip of ch channels at NominalRate, its buffer one of bufs.
CompCallsOn(bufs, ch) ==
    {CompArgs(buf, thr, ratio, att, rel, makeup, NominalRate, ch) :
        buf \in bufs, thr \in CompThresholds, ratio \in CompRatios,
        att \in TimesMs, rel \in TimesMs, makeup \in CompMakeups}

\* Calls with a sample rate or a channel count that is not positive.
InvalidCalls ==
    {CompArgs(buf, thr, Ratio(4, 1), "halfLife", "halfLife", 0, p[1], p[2]) :
        buf \in CompBuffers(2), thr \in CompThresholds,
        p \in {q \in {-1, 0, NominalRate} \X {-1, 0, 1, 2} : q[1] <= 0 \/ q[2] <= 0}}

\* Calls on a caller-owned buffer of any length: 4:1 at every threshold.
AnyLengthCalls(ch) ==
    {CompArgs(buf, thr, Ratio(4, 1), "zero", rel, 0, NominalRate, ch) :
        buf \in CompBuffersAnyLength, thr \in CompThresholds, rel \in TimesMs}

\* A clip whose buffer holds whole frames, about to be compressed.
CompInit ==
    /\ \/ \E ch \in {1, 2} : cArgs \in CompCallsOn(CompBuffers(ch), ch)
       \/ cArgs \in InvalidCalls
    /\ cResult = Untouched(cArgs.samples)
    /\ cDone = FALSE

\* The same for a caller-owned buffer of any length.
CompInitAnyLength ==
    /\ \E ch \in {1, 2} : cArgs \in AnyLengthCalls(ch)
    /\ cResult = Untouched(cArgs.samples)
    /\ cDone = FALSE

\* What a read past the end of the vector may yield; a call that stays
\* inside the vector reads no such value.
OutOfBoundsValues(a) ==
    IF a.channels > 0 /\ Len(a.samples) % a.channels # 0
    THEN CompSampleValues ELSE {0}

\* AudioEngine::compress calling DSP::compressor, AudioEngine.cpp:42-45.
compressor ==
    /\ ~cDone
    /\ \E oob \in OutOfBoundsValues(cArgs) : cResult' = compressorResult(cArgs, oob)
    /\ cDone' = TRUE
    /\ UNCHANGED <<cArgs, resolverVars, decimatorVars, dspVars, fadeVars, parVars,
                   lateVars>>

CompNext == compressor

\* No compressor call made.
CompIdle ==
    /\ cArgs = CompArgs(<<>>, 0, Ratio(1, 1), "halfLife", "halfLife", 0, NominalRate, 2)
    /\ cResult = Untouched(<<>>)
    /\ cDone = FALSE

(***************************************************************************)
(* Claims about the compressor.                                            *)
(***************************************************************************)
\* The buffer as it was handed in, as floats.
CompInput == [j \in 1..Len(cArgs.samples) |-> ToFloat(cArgs.samples[j])]

\* The call went past the parameter check.
CompRan == cDone /\ cArgs.sampleRate > 0 /\ cArgs.channels > 0

CompFrames == 1..Len(cResult.env)

\* |v| <= thresholdLin for an amplitude v.
AtOrBelowThreshold(v) ==
    v = 0 \/ LevelOfInt(IF v < 0 THEN -v ELSE v) <= cArgs.thresholdDb

EnvAboveThreshold(f) ==
    FLess(LNum(1, cArgs.thresholdDb), EnvToFloat(cResult.env[f]))

\* C11: when every sample magnitude is at or below the linear threshold and
\* attack and release are positive, the envelope never exceeds the threshold
\* on any frame, no gain reduction is applied and, with makeup 0 dB, every
\* sample is left unchanged.
C11_BelowThresholdUnchanged ==
    (/\ CompRan
     /\ cArgs.attackMs \in PositiveTimesMs
     /\ cArgs.releaseMs \in PositiveTimesMs
     /\ \A j \in 1..Len(cArgs.samples) : AtOrBelowThreshold(cArgs.samples[j]))
    => /\ \A f \in CompFrames :
            /\ ~EnvAboveThreshold(f)
            /\ cResult.reduction[f] = DbNum(0)
            /\ cResult.gain[f] = LNum(1, 0)
       /\ cArgs.makeupDb = 0 => cResult.out = CompInput

\* A three-frame buffer that rises to the threshold exactly and falls again,
\* compressed 4:1 with half-life attack and release and no makeup.
C11_Witness ==
    /\ CompRan
    /\ cArgs.samples = <<-LinStep, 0, -LinStep>>
    /\ cArgs.channels = 1
    /\ cArgs.thresholdDb = -2 * TwoDb
    /\ cArgs.ratio = Ratio(4, 1)
    /\ cArgs.attackMs = "halfLife"
    /\ cArgs.releaseMs = "halfLife"
    /\ cArgs.makeupDb = 0
    /\ cResult.env = <<EnvNum(LinStep \div 2), EnvNum(LinStep \div 4),
                       EnvNum((5 * LinStep) \div 8)>>
    /\ cResult.out = CompInput

\* Every output sample is the input sample times the makeup gain.
OnlyMakeupApplied ==
    /\ \A f \in CompFrames : cResult.reduction[f] = DbNum(0)
    /\ \A j \in 1..Len(cArgs.samples) :
          cResult.out[j] = FMul(ToFloat(cArgs.samples[j]),
                                LNum(1, cArgs.makeupDb))
    /\ cArgs.makeupDb = 0 => computePeakDbFS(cResult.out) = computePeakDbFS(CompInput)

\* C12 as stated: with ratio == 1.0 the compressor applies 0 dB of gain
\* reduction on every frame for any threshold, attack and release, so every
\* output sample is the input sample times the makeup gain and, with makeup
\* 0 dB, the peak level is unchanged.
C12_Original ==
    (CompRan /\ cArgs.ratio = Ratio(1, 1)) => OnlyMakeupApplied

\* C12 as amended: the same for any threshold, any attack time and any
\* positive release time.
C12_UnityRatioPositiveRelease ==
    (CompRan /\ cArgs.ratio = Ratio(1, 1) /\ cArgs.releaseMs \in PositiveTimesMs)
    => OnlyMakeupApplied

\* A ratio-1 call whose envelope is above the threshold on both frames and
\* whose samples come out times the makeup gain of 6.02 dB.
C12_Witness ==
    /\ CompRan
    /\ cArgs.ratio = Ratio(1, 1)
    /\ cArgs.samples = <<LinOne, -LinStep>>
    /\ cArgs.channels = 1
    /\ cArgs.thresholdDb = -4 * TwoDb
    /\ cArgs.attackMs = "zero"
    /\ cArgs.releaseMs = "halfLife"
    /\ cArgs.makeupDb = TwoDb
    /\ \A f \in CompFrames : EnvAboveThreshold(f)
    /\ cResult.out = <<LNum(1, TwoDb), LNum(-1, -TwoDb)>>

\* C13: for the same buffer, ratio >= 1, attack, release and makeup, raising
\* the threshold never increases the gain reduction applied at any frame:
\* for every threshold above the one of the call, the reduction the same
\* envelope gets is not greater than the reduction the call applied.
C13_RaisingThresholdNeverIncreasesReduction ==
    (CompRan /\ cArgs.ratio.num >= cArgs.ratio.den)
    => \A thresholdB \in CompThresholds :
          cArgs.thresholdDb <= thresholdB
          => \A f \in CompFrames :
                ~DbLess(cResult.reduction[f],
                        ReductionDb(cResult.env[f], thresholdB, cArgs.ratio))

\* A 4:1 call at -24.08 dB on a full-scale frame: 18.06 dB of reduction,
\* against 9.03 dB at -12.04 dB and none at 0 dB.
C13_Witness ==
    /\ CompRan
    /\ cArgs.ratio = Ratio(4, 1)
    /\ cArgs.thresholdDb = -4 * TwoDb
    /\ cArgs.attackMs = "zero"
    /\ cArgs.samples = <<LinOne>>
    /\ cResult.reduction = <<DbNum(3 * TwoDb)>>
    /\ ReductionDb(cResult.env[1], -2 * TwoDb, cArgs.ratio) = DbNum((3 * TwoDb) \div 2)
    /\ ReductionDb(cResult.env[1], 0, cArgs.ratio) = DbNum(0)

\* C14: compressor called with sampleRate <= 0 or channels <= 0 returns
\* without reading or modifying any sample of the buffer.
C14_InvalidParametersNoOp ==
    (cDone /\ (cArgs.sampleRate <= 0 \/ cArgs.channels <= 0))
    => /\ cResult.out = CompInput
       /\ cResult.touched = {}

\* A call with sampleRate 0 on a stereo frame well above the threshold.
C14_Witness ==
    /\ cDone
    /\ cArgs.sampleRate = 0
    /\ cArgs.channels = 2
    /\ cArgs.samples = <<LinOne, LinOne>>
    /\ cArgs.thresholdDb = -4 * TwoDb
    /\ cResult.out = <<LNum(1, 0), LNum(1, 0)>>

\* C15 as stated: compressor never reads or writes a sample index outside
\* [0, buffer length), for every buffer length and every channel count > 0
\* with sampleRate > 0.
C15_Original ==
    CompRan => cResult.touched \subseteq 0..(Len(cArgs.samples) - 1)

\* C15 as amended: the same for every buffer whose length is a multiple of
\* the channel count, the empty buffer included.
C15_IndicesWithinWholeFrames ==
    (CompRan /\ Len(cArgs.samples) % cArgs.channels = 0)
    => cResult.touched \subseteq 0..(Len(cArgs.samples) - 1)

\* A stereo call on one whole frame that accessed both of its samples.
C15_Witness ==
    /\ CompRan
    /\ cArgs.channels = 2
    /\ Len(cArgs.samples) = 2
    /\ cResult.touched = {0, 1}

\* |v| for an amplitude v.
Magnitude(v) == IF v < 0 THEN -v ELSE v

\* The largest magnitude among the samples handed in for frame f.
InputFramePeak(f) ==
    LET mags == {Magnitude(cArgs.samples[(f - 1) * cArgs.channels + c]) :
                    c \in 1..cArgs.channels}
    IN  CHOOSE m \in mags : \A n \in mags : n <= m

\* What output sample j gained over input sample j, in hundredths of a dB.
GainedDb(j) == cResult.out[j].db - ToFloat(cArgs.samples[j]).db

\* C28: within each frame the compressor multiplies every channel's sample
\* by the same factor: one gain derived from a single envelope driven by
\* the frame's maximum |sample| across channels, times the makeup gain, so
\* the ratio between the channels of a frame is preserved.
C28_SameFactorAcrossChannels ==
    (CompRan /\ Len(cArgs.samples) % cArgs.channels = 0) =>
        \A f \in CompFrames :
            LET first == (f - 1) * cArgs.channels
                before == IF f = 1 THEN EnvNum(0) ELSE cResult.env[f - 1]
                factor == FMul(cResult.gain[f], dbToLinear(DbNum(cArgs.makeupDb)))
                inFrame == (first + 1)..(first + cArgs.channels)
            IN  /\ cResult.env[f] = EnvStep(before, InputFramePeak(f),
                                        EnvelopeCoeff(cArgs.attackMs, cArgs.sampleRate),
                                        EnvelopeCoeff(cArgs.releaseMs, cArgs.sampleRate))
                /\ cResult.gain[f] = FrameGain(cResult.env[f], cArgs.thresholdDb, cArgs.ratio)
                /\ \A j \in inFrame :
                        cResult.out[j] = FMul(ToFloat(cArgs.samples[j]), factor)
                /\ \A j \in inFrame, k \in inFrame :
                        (/\ cArgs.samples[j] # 0
                         /\ cArgs.samples[k] # 0
                         /\ cResult.out[j].k = "num"
                         /\ cResult.out[k].k = "num")
                        => /\ GainedDb(j) = GainedDb(k)
                           /\ (cResult.out[j].sgn = cResult.out[k].sgn)
                                <=> ((cArgs.samples[j] > 0) <=> (cArgs.samples[k] > 0))

\* A stereo frame, full scale on the left and a quarter of it, inverted, on
\* the right, compressed 4:1 at -24.08 dB with 6.02 dB of makeup: both
\* channels come out 12.04 dB lower.
C28_Witness ==
    /\ CompRan
    /\ cArgs.channels = 2
    /\ cArgs.samples = <<LinOne, -LinStep>>
    /\ cArgs.thresholdDb = -4 * TwoDb
    /\ cArgs.ratio = Ratio(4, 1)
    /\ cArgs.attackMs = "zero"
    /\ cArgs.makeupDb = TwoDb
    /\ cResult.gain = <<LNum(1, -3 * TwoDb)>>
    /\ cResult.out = <<LNum(1, -2 * TwoDb), LNum(-1, -4 * TwoDb)>>

(***************************************************************************)
(* The fade curves, computeFadeGain / DSP::applyFadeIn / DSP::applyFadeOut *)
(* (DSP.cpp:116-175).  A sample is an integer amplitude and a gain the     *)
(* exact fraction num/den the curve has at position/fadeLength.            *)
(***************************************************************************)
MaxFadeBuf == 4         \* buffers of 0..MaxFadeBuf samples are enumerated
MaxFadeSamples == 5     \* fade lengths 0..MaxFadeSamples are enumerated

\* enum class FadeType, DSP.h:10-14.
FadeTypes == {"Linear", "Exponential", "SCurve"}

Frac(num, den) == [num |-> num, den |-> den]

\* a = b and a <= b on fractions with positive denominators.
FracEq(a, b) == a.num * b.den = b.num * a.den
FracLeq(a, b) == a.num * b.den <= b.num * a.den

\* A plausible slip: smoothstep written as t*t*(3 - t).
CurveNum_wrongCubic(p, fadeLength, fadeType) ==
    CASE fadeType = "Linear" -> p
      [] fadeType = "Exponential" -> p * p
      [] OTHER -> p * p * (3 * fadeLength - p)

\* The numerator of the curve at t = p/fadeLength, DSP.cpp:125-141:
\* t, t*t or t*t*(3 - 2t).
CurveNum(p, fadeLength, fadeType) ==
    CASE fadeType = "Linear" -> p
      [] fadeType = "Exponential" -> p * p
      [] OTHER -> p * p * (3 * fadeLength - 2 * p)

\* Its denominator.
CurveDen(fadeLength, fadeType) ==
    CASE fadeType = "Linear" -> fadeLength
      [] fadeType = "Exponential" -> fadeLength * fadeLength
      [] OTHER -> fadeLength * fadeLength * fadeLength

\* computeFadeGain, DSP.cpp:116-149.
computeFadeGain(position, fadeLength, fadeType, isFadeIn) ==
    IF fadeLength = 0 THEN Frac(1, 1)
    ELSE LET p == Clamp(position, 0, fadeLength)
             num == CurveNum(p, fadeLength, fadeType)
             den == CurveDen(fadeLength, fadeType)
         IN  IF isFadeIn THEN Frac(num, den) ELSE Frac(den - num, den)

\* size_t actualFadeLength = std::min(fadeLengthSamples, samples.size()).
ActualFadeLength(fadeLengthSamples, size) == Min(fadeLengthSamples, size)

\* A plausible slip: the fade-out window starts at the head of the buffer.
FadeStart_head(size, actualFadeLength) == 0

\* size_t fadeStart = samples.size() - actualFadeLength, DSP.cpp:169.
FadeStart(size, actualFadeLength) == size - actualFadeLength

\* What a call that returns at DSP.cpp:153 or 165 leaves behind.
NoFade(buf, op) ==
    [op |-> op, written |-> {}, gain |-> [j \in 1..Len(buf) |-> Frac(1, 1)],
     out |-> [j \in 1..Len(buf) |-> Frac(buf[j], 1)]]

\* The loop of DSP.cpp:158-161 (fadeStart = 0) and 171-174: the 0-based
\* samples fadeStart + i are multiplied by computeFadeGain(i, ...).
FadeLoop(buf, fadeStart, actualFadeLength, fadeType, isFadeIn, op) ==
    LET window == {fadeStart + i : i \in 0..(actualFadeLength - 1)}
        gainAt(j) == computeFadeGain(j - 1 - fadeStart, actualFadeLength,
                                     fadeType, isFadeIn)
    IN  [op |-> op, written |-> window,
         gain |-> [j \in 1..Len(buf) |->
                      IF (j - 1) \in window THEN gainAt(j) ELSE Frac(1, 1)],
         out |-> [j \in 1..Len(buf) |->
                     IF (j - 1) \in window
                     THEN Frac(buf[j] * gainAt(j).num, gainAt(j).den)
                     ELSE Frac(buf[j], 1)]]

\* DSP::applyFadeIn, DSP.cpp:152-162.
FadeInResult(a) ==
    IF Len(a.samples) = 0 \/ a.fadeLengthSamples = 0 THEN NoFade(a.samples, "in")
    ELSE FadeLoop(a.samples, 0,
                  ActualFadeLength(a.fadeLengthSamples, Len(a.samples)),
                  a.fadeType, TRUE, "in")

\* DSP::applyFadeOut, DSP.cpp:164-175.
FadeOutResult(a) ==
    IF Len(a.samples) = 0 \/ a.fadeLengthSamples = 0 THEN NoFade(a.samples, "out")
    ELSE LET actualFadeLength == ActualFadeLength(a.fadeLengthSamples, Len(a.samples))
         IN  FadeLoop(a.samples, FadeStart(Len(a.samples), actualFadeLength),
                      actualFadeLength, a.fadeType, FALSE, "out")

FadeSampleValues == {0, 1, -2}
FadeBuffers == UNION {[1..n -> FadeSampleValues] : n \in 0..MaxFadeBuf}

FadeArgs(buf, len, type) ==
    [samples |-> buf, fadeLengthSamples |-> len, fadeType |-> type]

\* A buffer about to be faded.
FadeInit ==
    /\ fArgs \in {FadeArgs(buf, len, type) :
                     buf \in FadeBuffers, len \in 0..MaxFadeSamples, type \in FadeTypes}
    /\ fResult = NoFade(fArgs.samples, "none")
    /\ fDone = FALSE

applyFadeIn ==
    /\ ~fDone
    /\ fResult' = FadeInResult(fArgs)
    /\ fDone' = TRUE
    /\ UNCHANGED <<fArgs, resolverVars, decimatorVars, dspVars, compVars, parVars,
                   lateVars>>

applyFadeOut ==
    /\ ~fDone
    /\ fResult' = FadeOutResult(fArgs)
    /\ fDone' = TRUE
    /\ UNCHANGED <<fArgs, resolverVars, decimatorVars, dspVars, compVars, parVars,
                   lateVars>>

FadeNext == applyFadeIn \/ applyFadeOut

\* No fade call made.
FadeIdle ==
    /\ fArgs = FadeArgs(<<>>, 0, "Linear")
    /\ fResult = NoFade(<<>>, "none")
    /\ fDone = FALSE

(***************************************************************************)
(* Claims about the fades.                                                 *)
(***************************************************************************)
FadeSize == Len(fArgs.samples)

\* min(fadeLength, N).
FadeSpan == IF fArgs.fadeLengthSamples < FadeSize THEN fArgs.fadeLengthSamples
            ELSE FadeSize

\* The 0-based indices the claim lets the call modify.
FadeWindow ==
    IF fResult.op = "in" THEN 0..(FadeSpan - 1)
    ELSE (FadeSize - FadeSpan)..(FadeSize - 1)

\* C16: applyFadeIn modifies only the first min(fadeLength, N) samples and
\* applyFadeOut only the last min(fadeLength, N) samples of an N-sample
\* buffer, leaving every other sample and the buffer length unchanged; with
\* fadeLength == 0 or an empty buffer nothing changes at all.
C16_FadeTouchesOnlyItsWindow ==
    fDone
    => /\ Len(fResult.out) = FadeSize
       /\ fResult.written = FadeWindow
       /\ \A j \in 1..FadeSize :
             (j - 1) \notin FadeWindow => fResult.out[j] = Frac(fArgs.samples[j], 1)
       /\ (fArgs.fadeLengthSamples = 0 \/ FadeSize = 0)
             => /\ fResult.written = {}
                /\ fResult.out = [j \in 1..FadeSize |-> Frac(fArgs.samples[j], 1)]

\* A two-sample fade-out of a four-sample buffer: the first two samples are
\* as they were, the third is multiplied by 2/2 and the last by 1/2.
C16_Witness ==
    /\ fDone
    /\ fResult.op = "out"
    /\ fArgs.samples = <<1, -2, -2, 1>>
    /\ fArgs.fadeLengthSamples = 2
    /\ fArgs.fadeType = "Linear"
    /\ fResult.written = {2, 3}
    /\ fResult.out = <<Frac(1, 1), Frac(-2, 1), Frac(-4, 2), Frac(1, 2)>>

\* C17: for every curve kind and every fade length >= 1, the fade gain is
\* exactly 0 at the silent boundary of the fade: applyFadeIn multiplies the
\* buffer's first sample by 0 and applyFadeOut multiplies the buffer's last
\* sample by 0.
C17_GainZeroAtSilentBoundary ==
    (fDone /\ fArgs.fadeLengthSamples >= 1 /\ FadeSize >= 1)
    => /\ fResult.op = "in"
            => (0 \in fResult.written /\ fResult.gain[1].num = 0)
       /\ fResult.op = "out"
            => ((FadeSize - 1) \in fResult.written /\ fResult.gain[FadeSize].num = 0)

\* The positions inside the fade window, as 1-based buffer indices.
FadedIndices == {j \in 1..FadeSize : (j - 1) \in fResult.written}

\* C18: for each curve kind the gain applied inside the fade window is
\* monotonic in sample position, non-decreasing for applyFadeIn and
\* non-increasing for applyFadeOut, and every applied gain lies in [0, 1].
C18_GainMonotonicWithinUnit ==
    fDone
    => /\ \A j \in FadedIndices :
             /\ 0 <= fResult.gain[j].num
             /\ fResult.gain[j].num <= fResult.gain[j].den
       /\ \A j, k \in FadedIndices :
             j < k => IF fResult.op = "in"
                      THEN FracLeq(fResult.gain[j], fResult.gain[k])
                      ELSE FracLeq(fResult.gain[k], fResult.gain[j])

\* A four-sample S-curve fade-in: gains 0, 10/64, 32/64, 54/64.
C18_Witness ==
    /\ fDone
    /\ fResult.op = "in"
    /\ fArgs.fadeType = "SCurve"
    /\ fArgs.fadeLengthSamples = 4
    /\ FadeSize = 4
    /\ fResult.gain = <<Frac(0, 64), Frac(10, 64), Frac(32, 64), Frac(54, 64)>>

\* The buffer holds one non-zero amplitude throughout.
ConstantAmplitude ==
    /\ FadeSize >= 1
    /\ fArgs.samples[1] # 0
    /\ \A j \in 1..FadeSize : fArgs.samples[j] = fArgs.samples[1]

\* C19: for a constant-amplitude buffer of length N and equal fade length L
\* and curve kind, the value at index i after applyFadeIn equals the value
\* at index N-1-i after applyFadeOut, for every i in [0, L).
C19_FadeSymmetry ==
    (/\ fDone
     /\ ConstantAmplitude
     /\ fArgs.fadeLengthSamples >= 1
     /\ fArgs.fadeLengthSamples <= FadeSize)
    => \A i \in 0..(fArgs.fadeLengthSamples - 1) :
          IF fResult.op = "in"
          THEN FracEq(fResult.out[i + 1], FadeOutResult(fArgs).out[FadeSize - i])
          ELSE FracEq(FadeInResult(fArgs).out[i + 1], fResult.out[FadeSize - i])

(***************************************************************************)
(* The parallel path of computeWaveformCache, step by step                 *)
(* (WaveformView.cpp:266-297): std::for_each(par_unseq) runs one worker    *)
(* per column, in any order.  The workers of the first MaxScheduledColumns *)
(* columns are scheduled one by one; those of the columns after them run   *)
(* as one block, at any point of the schedule.                             *)
(***************************************************************************)
MaxScheduledColumns == 3

\* std::pair<float, float>{}: what channelCache_[ch].resize leaves in a cell.
ZeroCell == [minVal |-> 0, maxVal |-> 0]

\* A plausible slip: every worker writes the cell of one shared column.
WorkerCell_shared(x) == 0

\* The column of the cell a worker writes: channelCache_[ch][x], line 296.
WorkerCell(x) == x

\* channelCache_ after the workers of the columns xs have run.
AfterWorkers(cache, xs) ==
    LET nFrames == frameCount(clipSamples, clipChannels)
        writers(c) == {x \in xs : WorkerCell(x) = c}
    IN  [ch \in DOMAIN cache |->
            [c \in DOMAIN cache[ch] |->
                IF writers(c) = {} THEN cache[ch][c]
                ELSE LET x == CHOOSE w \in writers(c) : TRUE
                     IN  ParallelColumn(clipSamples, clipChannels, nFrames,
                                        scrollOffsetFrames, samplesPerPixel, ch, x)]]

\* Sample i (0-based) of the enumerated clips: a ramp over the three levels,
\* or a slower one.
RampSample(kind, i) ==
    IF kind = "fast" THEN (i % 3) - 1 ELSE ((i \div 2) % 3) - 1

\* Clips shorter and longer than the widget is wide.
ParBuffers(channels) ==
    {[j \in 1..(n * channels) |-> RampSample(kind, j - 1)] :
        n \in {MaxFrames, kParallelThreshold + MaxFrames}, kind \in {"fast", "slow"}}

\* A view at least kParallelThreshold wide holding a clip, its cache invalid.
ParallelInit ==
    /\ clipChannels \in {1, 2}
    /\ clipSamples \in ParBuffers(clipChannels)
    /\ widgetWidth = kParallelThreshold
    /\ scrollOffsetFrames \in {0, 1}
    /\ samplesPerPixel \in {SppDen, MaxSppNum}
    /\ channelCache = <<>>
    /\ cacheValid = FALSE
    /\ pending = {}
    /\ parPhase = "idle"

\* WaveformView.cpp:250-273: the cache is cleared and resized and the
\* for_each is entered.
ParallelBegin ==
    /\ parPhase = "idle"
    /\ ~cacheValid
    /\ Len(clipSamples) > 0
    /\ widgetWidth >= kParallelThreshold
    /\ channelCache' = [ch \in 0..(clipChannels - 1) |->
                           [x \in 0..(widgetWidth - 1) |-> ZeroCell]]
    /\ pending' = 0..(widgetWidth - 1)
    /\ parPhase' = "running"
    /\ UNCHANGED <<clipSamples, clipChannels, widgetWidth, scrollOffsetFrames,
                   samplesPerPixel, cacheValid, resolverVars, dspVars, compVars,
                   fadeVars,
                   lateVars>>

\* The worker of one of the first columns runs: WaveformView.cpp:275-297.
Worker ==
    /\ parPhase = "running"
    /\ \E x \in {y \in pending : y < MaxScheduledColumns} :
          /\ channelCache' = AfterWorkers(channelCache, {x})
          /\ pending' = pending \ {x}
    /\ UNCHANGED <<clipSamples, clipChannels, widgetWidth, scrollOffsetFrames,
                   samplesPerPixel, cacheValid, parPhase, resolverVars, dspVars,
                   compVars, fadeVars,
                   lateVars>>

\* The workers of all the later columns run.
RemainingWorkers ==
    /\ parPhase = "running"
    /\ {x \in pending : x >= MaxScheduledColumns} # {}
    /\ channelCache' = AfterWorkers(channelCache,
                                    {x \in pending : x >= MaxScheduledColumns})
    /\ pending' = {x \in pending : x < MaxScheduledColumns}
    /\ UNCHANGED <<clipSamples, clipChannels, widgetWidth, scrollOffsetFrames,
                   samplesPerPixel, cacheValid, parPhase, resolverVars, dspVars,
                   compVars, fadeVars,
                   lateVars>>

\* std::for_each returns once every worker has; cacheValid_ = true, line 325.
ParallelJoin ==
    /\ parPhase = "running"
    /\ pending = {}
    /\ cacheValid' = TRUE
    /\ parPhase' = "done"
    /\ UNCHANGED <<clipSamples, clipChannels, widgetWidth, scrollOffsetFrames,
                   samplesPerPixel, channelCache, pending, resolverVars, dspVars,
                   compVars, fadeVars,
                   lateVars>>

ParallelNext == ParallelBegin \/ Worker \/ RemainingWorkers \/ ParallelJoin

\* No parallel computation in progress.
ParallelIdle ==
    /\ pending = {}
    /\ parPhase = "idle"

(***************************************************************************)
(* Claim about the parallel decimator path.                                *)
(***************************************************************************)
\* The cell the sequential loop computes for channel ch and column x.
SequentialCell(ch, x) ==
    SequentialColumn(clipSamples, clipChannels, frameCount(clipSamples, clipChannels),
                     scrollOffsetFrames, samplesPerPixel, ch, x)

\* C20: in the parallel path the per-column workers are independent: a
\* worker writes only the cells of its own column, so at every point of
\* every schedule the columns whose worker has run hold what the sequential
\* path computes, the others are as the resize left them, and the finished
\* cache equals the sequential one.
C20_ParallelEqualsSequential ==
    parPhase \in {"running", "done"}
    => \A ch \in 0..(clipChannels - 1) : \A x \in 0..(widgetWidth - 1) :
          channelCache[ch][x] = IF x \in pending THEN ZeroCell
                                ELSE SequentialCell(ch, x)

\* A finished computation over a clip longer than the widget is wide, whose
\* first three columns differ from one another.
C20_Witness ==
    /\ parPhase = "done"
    /\ cacheValid
    /\ clipChannels = 2
    /\ Len(clipSamples) > 2 * kParallelThreshold
    /\ samplesPerPixel = SppDen
    /\ channelCache[0][0] # channelCache[0][1]
    /\ channelCache[0][1] # channelCache[0][2]
    /\ channelCache[0][0] # channelCache[0][2]

(***************************************************************************)
(* The reductions of utils/DSP.cpp on buffers of kParallelThreshold        *)
(* samples or more: std::transform_reduce and std::for_each under          *)
(* std::execution::par_unseq, DSP.cpp:16-81.                               *)
(*                                                                         *)
(* The execution policy splits the buffer into ranges, runs one worker per *)
(* range in any order and combines the partial accumulators in any order.  *)
(* The sum of squares is a double: it is held in units of the square of    *)
(* the quietest enumerated sample and rounded to SumMantissaBits bits     *)
(* after every addition (round to nearest, ties to even), which stands for *)
(* the 53 bits of a double; the cast of the root mean square to float      *)
(* rounds to FloatMantissaBits bits, which stands for the 24 of a float.   *)
(***************************************************************************)
MaxChunks == 3          \* the policy forms 1..MaxChunks ranges
SumMantissaBits == 16   \* bits of the mantissa of the double accumulator
FloatMantissaBits == 4  \* bits of the mantissa of the float the result is cast to
FoldBlock == 8          \* the loops are evaluated in runs of FoldBlock samples

\* 20*log10(2) in hundredths of a dB: 6 dB doubles a magnitude and
\* quadruples its square.
SixDb == 602

\* The quietest enumerated magnitude: its square is one unit of the sum,
\* and the square of full scale (0 dB) is 2^SumMantissaBits units.
QuietDb == -((SixDb \div 2) * SumMantissaBits)

DNum(v) == [k |-> "num", v |-> v]
DInf == [k |-> "inf", v |-> 0]
DNaN == [k |-> "nan", v |-> 0]

\* v rounded to a mantissa of bits bits: to nearest, ties to even.
RoundToBits(v, bits) ==
    IF v < Pow2(bits) THEN v
    ELSE LET dropped == Pow2(Log2Floor(v) - bits + 1)
             q == v \div dropped
             r == v % dropped
         IN  IF 2 * r > dropped \/ (2 * r = dropped /\ q % 2 = 1)
             THEN (q + 1) * dropped
             ELSE q * dropped

\* a + b on doubles whose mantissa has bits bits.
DoubleAdd(a, b, bits) ==
    CASE a.k = "nan" \/ b.k = "nan" -> DNaN
      [] a.k = "inf" \/ b.k = "inf" -> DInf
      [] OTHER -> DNum(RoundToBits(a.v + b.v, bits))

\* static_cast<double>(s) * s, DSP.cpp:45 and 48: exact in a double.
SquareOf(s) ==
    CASE s.k = "nan" -> DNaN
      [] s.k = "inf" -> DInf
      [] s.k = "zero" -> DNum(0)
      [] OTHER -> DNum(Pow2((s.db - QuietDb) \div (SixDb \div 2)))

\* The loop of DSP.cpp:30 over the samples i..last, at most FoldBlock of
\* them: peak = std::max(peak, std::abs(s)).  A NaN on the left of std::max
\* stays, so the loop need not go on once the accumulator is one.
RECURSIVE PeakRun(_, _, _, _)
PeakRun(buf, i, last, peak) ==
    IF i > last \/ peak.k = "nan" THEN peak
    ELSE PeakRun(buf, i + 1, last, FMax(peak, FAbs(buf[i])))

\* The same loop over the samples first..last: the first half of them,
\* then the second half with the accumulator the first half left.
RECURSIVE PeakRange(_, _, _, _)
PeakRange(buf, first, last, peak) ==
    IF first > last \/ peak.k = "nan" THEN peak
    ELSE IF last - first < FoldBlock THEN PeakRun(buf, first, last, peak)
    ELSE PeakRange(buf, (first + last) \div 2 + 1, last,
                   PeakRange(buf, first, (first + last) \div 2, peak))

\* The loop of DSP.cpp:48 over the samples i..last, at most FoldBlock of
\* them: sumSq += static_cast<double>(s) * s.  A sum that is a NaN stays
\* one, so the loop need not go on once it is.
RECURSIVE SumRun(_, _, _, _, _)
SumRun(buf, i, last, sumSq, bits) ==
    IF i > last \/ sumSq.k = "nan" THEN sumSq
    ELSE SumRun(buf, i + 1, last, DoubleAdd(sumSq, SquareOf(buf[i]), bits), bits)

\* The same loop over the samples first..last: the first half of them,
\* then the second half with the sum the first half left.
RECURSIVE SumRange(_, _, _, _, _)
SumRange(buf, first, last, sumSq, bits) ==
    IF first > last \/ sumSq.k = "nan" THEN sumSq
    ELSE IF last - first < FoldBlock THEN SumRun(buf, first, last, sumSq, bits)
    ELSE SumRange(buf, (first + last) \div 2 + 1, last,
                  SumRange(buf, first, (first + last) \div 2, sumSq, bits), bits)

\* Bits enough to hold every sum of squares of the enumerated buffers
\* exactly (they hold one full-scale sample at most): the sum in real
\* numbers.
ExactBits == SumMantissaBits + 12

\* double rms = std::sqrt(sumSq / samples.size()) and its cast to float,
\* DSP.cpp:51-52.  Square root and division by the length are monotone, so
\* the float is named by the sum of squares rounded to the float's
\* mantissa.
RmsFloat(sumSq) ==
    IF sumSq.k = "num" THEN DNum(RoundToBits(sumSq.v, FloatMantissaBits)) ELSE sumSq

\* What the sequential loops of DSP.cpp:30 and 48 return for buf.
SequentialPeakOf(buf) == linearToDb(PeakRange(buf, 1, Len(buf), LZero))
SequentialRmsOf(buf) == RmsFloat(SumRange(buf, 1, Len(buf), DNum(0), SumMantissaBits))

\* TRUE iff no addition of the sum of squares of buf rounds, in whatever
\* order the squares are added: the sum in real numbers fits the mantissa
\* of the accumulator.
SumIsExact(buf) ==
    LET total == SumRange(buf, 1, Len(buf), DNum(0), ExactBits)
    IN  total.k = "num" /\ total.v < Pow2(SumMantissaBits)

HasNaN(buf) == \E i \in 1..Len(buf) : buf[i].k = "nan"

\* The sequential branch of the call on buf, DSP.cpp:30, 48 and 65, and
\* what it takes to compare with it.
SequentialRun(call, buf) ==
    [result |-> CASE call.op = "computePeakDbFS" -> SequentialPeakOf(buf)
                  [] call.op = "computeRMSDb" -> SequentialRmsOf(buf)
                  [] OTHER -> [k |-> "none", v |-> 0],
     buffer |-> IF call.op = "applyGain" THEN ApplyGain(buf, call.gain) ELSE <<>>,
     hasNaN |-> HasNaN(buf),
     sumIsExact |-> call.op = "computeRMSDb" /\ SumIsExact(buf)]

\* A plausible slip: a range starts on the last sample of the range before.
ChunkFirst_overlap(cuts, k) == IF k = 1 THEN 1 ELSE cuts[k - 1]

\* The ranges the execution policy hands to its workers are disjoint and
\* cover [begin, end): range k starts after the end of range k - 1.
ChunkFirst(cuts, k) == IF k = 1 THEN 1 ELSE cuts[k - 1] + 1
ChunkLast(cuts, k) == cuts[k]

\* The partial accumulator of one range: the reduction starts from the
\* transform of the range's first sample and folds in the others.
ChunkPeak(buf, first, last) == PeakRange(buf, first + 1, last, FAbs(buf[first]))
ChunkSum(buf, first, last) ==
    SumRange(buf, first + 1, last, SquareOf(buf[first]), SumMantissaBits)

\* s *= gain on the samples first..last, DSP.cpp:61-63 and 75-77.
ScaleRange(buf, first, last, g) ==
    [i \in 1..Len(buf) |-> IF first <= i /\ i <= last THEN FMul(buf[i], g) ELSE buf[i]]

\* The accumulators in seq combined from left to right.
RECURSIVE CombinePeak(_, _)
CombinePeak(seq, i) ==
    IF i = 1 THEN seq[1] ELSE FMax(CombinePeak(seq, i - 1), seq[i])

RECURSIVE CombineSum(_, _)
CombineSum(seq, i) ==
    IF i = 1 THEN seq[1] ELSE DoubleAdd(CombineSum(seq, i - 1), seq[i], SumMantissaBits)

\* The orders in which the initial value (0) and the partial accumulators
\* 1..m can meet: every arrangement of 0..m in a row.
JoinOrders(m) ==
    {o \in [1..(m + 1) -> 0..m] : \A a, b \in 1..(m + 1) : a # b => o[a] # o[b]}

\* The buffers enumerated, by the name of their pattern.
\*   quiet:     every sample at the quietest level, signs alternating;
\*   ramp:      levels rising in steps of 3 dB over four samples, repeated;
\*   loudFirst: one full-scale sample, then quiet samples;
\*   loudLast:  quiet samples, then one full-scale sample;
\*   nanFirst:  one NaN, then quiet samples;
\*   nanMiddle: quiet samples with one NaN after the middle.
BufferKinds == {"quiet", "ramp", "loudFirst", "loudLast", "nanFirst", "nanMiddle"}

Quiet(i) == LNum(IF i % 2 = 0 THEN 1 ELSE -1, QuietDb)

LargeSample(kind, i, n) ==
    CASE kind = "quiet" -> Quiet(i)
      [] kind = "ramp" -> LNum(IF i % 3 = 0 THEN -1 ELSE 1,
                               QuietDb + (i % 4) * (SixDb \div 2))
      [] kind = "loudFirst" -> IF i = 1 THEN LNum(-1, 0) ELSE Quiet(i)
      [] kind = "loudLast" -> IF i = n THEN LNum(1, 0) ELSE Quiet(i)
      [] kind = "nanFirst" -> IF i = 1 THEN LNaN ELSE Quiet(i)
      [] OTHER -> IF i = n \div 2 + 1 THEN LNaN ELSE Quiet(i)

LargeBuffer(kind) ==
    [i \in 1..DSP_kParallelThreshold |-> LargeSample(kind, i, DSP_kParallelThreshold)]

\* The calls enumerated: the two level meters, and the scaling loop of the
\* normalizers with a gain of +6 dB or of -6 dB.
RedCall(op, kind, g) == [op |-> op, kind |-> kind, gain |-> g]

RedCalls ==
    {RedCall("computePeakDbFS", kind, LNum(1, 0)) :
        kind \in {"quiet", "ramp", "nanFirst", "nanMiddle"}}
    \cup {RedCall("computeRMSDb", kind, LNum(1, 0)) :
        kind \in {"ramp", "loudFirst", "loudLast", "nanMiddle"}}
    \cup {RedCall("applyGain", "ramp", LNum(1, g)) : g \in {SixDb, -SixDb}}

\* The places where the policy may cut a buffer of n samples: in the
\* middle, and before the last sample.
CutPoints(n) == {n \div 2, n - 1}

RECURSIVE SortedCuts(_)
SortedCuts(set) ==
    IF set = {} THEN <<>>
    ELSE LET lo == CHOOSE c \in set : \A d \in set : c <= d
         IN  <<lo>> \o SortedCuts(set \ {lo})

\* The partitions of 1..n into at most MaxChunks ranges cut at CutPoints.
Partitions(n) ==
    {SortedCuts(c) \o <<n>> : c \in {c \in SUBSET CutPoints(n) : Cardinality(c) < MaxChunks}}

NoPart == [k |-> "none", v |-> 0]
NoResult == [k |-> "none", v |-> 0]

\* A large buffer and a call about to be made on it.
RedInit ==
    /\ redArgs \in RedCalls
    /\ redBuf = LargeBuffer(redArgs.kind)
    /\ redSequential = SequentialRun(redArgs, redBuf)
    /\ redRanges = <<>>
    /\ redCuts = <<>>
    /\ redPending = {}
    /\ redParts = <<>>
    /\ redResult = NoResult
    /\ redPhase = "called"

\* Entry of the parallel branch, DSP.cpp:20, 43, 60 and 74: the buffer has
\* kParallelThreshold samples or more and the policy forms its ranges.
ReduceBegin ==
    /\ redPhase = "called"
    /\ Len(redBuf) >= DSP_kParallelThreshold
    /\ redCuts' \in Partitions(Len(redBuf))
    /\ redPending' = 1..Len(redCuts')
    /\ redParts' = [k \in 1..Len(redCuts') |-> NoPart]
    /\ redPhase' = "running"
    /\ UNCHANGED <<redArgs, redBuf, redSequential, redRanges, redResult, earlyVars, batchVars, clipVars,
                   viewVars>>

\* One worker runs over its range: it folds the samples into its partial
\* accumulator (DSP.cpp:22-28 and 45-49) or scales them (DSP.cpp:61-63).
ReduceChunk ==
    /\ redPhase = "running"
    /\ \E k \in redPending :
        LET first == ChunkFirst(redCuts, k)
            last == ChunkLast(redCuts, k)
        IN  /\ redPending' = redPending \ {k}
            /\ redRanges' = Append(redRanges, [first |-> first, last |-> last])
            /\ redParts' = [redParts EXCEPT ![k] =
                              CASE redArgs.op = "computePeakDbFS" ->
                                        ChunkPeak(redBuf, first, last)
                                [] redArgs.op = "computeRMSDb" ->
                                        ChunkSum(redBuf, first, last)
                                [] OTHER -> NoPart]
            /\ redBuf' = IF redArgs.op = "applyGain"
                         THEN ScaleRange(redBuf, first, last, redArgs.gain)
                         ELSE redBuf
    /\ UNCHANGED <<redArgs, redSequential, redCuts, redResult, redPhase, earlyVars,
                   batchVars, clipVars, viewVars>>

\* All workers have run: the partial accumulators and the initial value
\* are combined in the order the policy picks, and the call returns
\* (DSP.cpp:32 and 51-52); std::for_each has nothing to combine.
ReduceJoin ==
    /\ redPhase = "running"
    /\ redPending = {}
    /\ \E o \in JoinOrders(Len(redCuts)) :
        redResult' =
            CASE redArgs.op = "computePeakDbFS" ->
                    linearToDb(CombinePeak(
                        [a \in 1..Len(o) |-> IF o[a] = 0 THEN LZero ELSE redParts[o[a]]],
                        Len(o)))
              [] redArgs.op = "computeRMSDb" ->
                    RmsFloat(CombineSum(
                        [a \in 1..Len(o) |-> IF o[a] = 0 THEN DNum(0) ELSE redParts[o[a]]],
                        Len(o)))
              [] OTHER -> NoResult
    /\ redPhase' = "returned"
    /\ UNCHANGED <<redArgs, redBuf, redSequential, redRanges, redCuts, redPending,
                   redParts, earlyVars, batchVars, clipVars, viewVars>>

RedNext == ReduceBegin \/ ReduceChunk \/ ReduceJoin

\* No large buffer loaded.
RedIdle ==
    /\ redArgs = RedCall("none", "quiet", LNum(1, 0))
    /\ redBuf = <<>>
    /\ redSequential = <<>>
    /\ redRanges = <<>>
    /\ redCuts = <<>>
    /\ redPending = {}
    /\ redParts = <<>>
    /\ redResult = NoResult
    /\ redPhase = "idle"

(***************************************************************************)
(* Claim about the parallel reductions.                                    *)
(***************************************************************************)
RedReturned == redPhase = "returned"

\* Every sample has been read or scaled exactly once: the ranges the
\* workers ran over lie in the buffer, no two of them share an index, and
\* together they hold as many indices as the buffer.
RECURSIVE RangeSizes(_, _)
RangeSizes(ranges, r) ==
    IF r = 0 THEN 0 ELSE ranges[r].last - ranges[r].first + 1 + RangeSizes(ranges, r - 1)

EachSampleOnce ==
    /\ \A r \in 1..Len(redRanges) :
            1 <= redRanges[r].first /\ redRanges[r].first <= redRanges[r].last
                /\ redRanges[r].last <= Len(redBuf)
    /\ \A r, q \in 1..Len(redRanges) :
            r # q => (redRanges[r].last < redRanges[q].first
                        \/ redRanges[q].last < redRanges[r].first)
    /\ RangeSizes(redRanges, Len(redRanges)) = Len(redBuf)

\* What the call leaves behind equals what the sequential loop of the same
\* function leaves behind on the same buffer.
SameAsSequential ==
    IF redArgs.op = "applyGain" THEN redBuf = redSequential.buffer
    ELSE redResult = redSequential.result

\* C21 as stated: for buffers of at least 10,000 samples the parallel
\* peak and RMS reductions and the parallel gain application give the same
\* result as the sequential loops, for every partition and interleaving,
\* and every sample is read or scaled exactly once.
C21_Original == RedReturned => (EachSampleOnce /\ SameAsSequential)

\* C21, amended: for buffers of at least 10,000 samples every sample is
\* read or scaled exactly once over disjoint ranges, for every partition
\* and interleaving; the parallel gain application gives the buffer of the
\* sequential loop; the parallel peak gives the sequential peak when no
\* sample is a NaN; the parallel RMS gives the sequential RMS when no
\* addition of the sum of squares rounds.
C21_ParallelMatchesSequentialUpToOrder ==
    RedReturned =>
        /\ EachSampleOnce
        /\ redArgs.op = "applyGain" => SameAsSequential
        /\ (redArgs.op = "computePeakDbFS" /\ ~redSequential.hasNaN) => SameAsSequential
        /\ (redArgs.op = "computeRMSDb" /\ redSequential.sumIsExact) => SameAsSequential

\* The RMS of the ramp buffer has been reduced over three ranges and equals
\* the sequential RMS, which is not silence.
C21_Witness ==
    /\ RedReturned
    /\ redArgs.op = "computeRMSDb"
    /\ redArgs.kind = "ramp"
    /\ Len(redCuts) = MaxChunks
    /\ redSequential.sumIsExact
    /\ redResult = redSequential.result
    /\ redResult.v > DSP_kParallelThreshold

(***************************************************************************)
(* Batch processing, ui/MainWindow.cpp:1230-1381, and the UI handlers that *)
(* can run while a batch is in the thread pool.                            *)
(*                                                                         *)
(* Every std::vector<float> of samples has an address; heap gives what is  *)
(* stored at each address.  What is stored is named by the file it was     *)
(* loaded from and the edits applied to it since.  An AudioClip holds the  *)
(* address of its samples_; its originalSamples_ are held by value.  List  *)
(* positions count from 1 (the code counts from 0).                        *)
(***************************************************************************)
MaxClips == 2           \* clips in the list when the batch starts: 1..MaxClips
MaxUiActions == 1       \* UI handlers run besides applyProcessing and its completion

\* Addresses enough for the loaded clips, one batch over all of them
\* (three copies per clip) and the allocations of the other UI handlers.
MaxAddr == MaxClips + 3 * MaxClips + MaxUiActions

\* The samples of a file as loaded.
Loaded(file) == [file |-> file, edits |-> <<>>]

\* An AudioClip object: displayName_, the address of samples_, the value of
\* originalSamples_, and modified_ (AudioClip.h:95-107).
Clip(name, addr, originalSamples, modified) ==
    [name |-> name, samples |-> addr, original |-> originalSamples, modified |-> modified]

NoClip == Clip("", 0, Loaded(""), FALSE)

\* A plausible slip: the copy shares the sample storage of the clip it was
\* made from.
CopyClip_shallow(clip, addr) == clip

\* AudioClip's copy constructor (implicit): the copy owns a std::vector of
\* its own, at addr, holding the same samples.
CopyClip(clip, addr) == [clip EXCEPT !.samples = addr]

\* The lists of positions of the table's selection: every non-empty set of
\* rows, each row once (MainWindow.cpp:971-980).
RECURSIVE Ascending(_)
Ascending(set) ==
    IF set = {} THEN <<>>
    ELSE LET lo == CHOOSE c \in set : \A d \in set : c <= d
         IN  <<lo>> \o Ascending(set \ {lo})

Selections(n) == {Ascending(rows) : rows \in (SUBSET (1..n)) \ {{}}}

\* An edit applied in place to the samples stored at an address.
Edited(content, edit) == [content EXCEPT !.edits = Append(@, edit)]

\* The clip list after loading: files "a", "b", ... in that order, each
\* with saveOriginal() called (MainWindow.cpp:878-884, 909-923).
FileNames == <<"a", "b", "c">>

LoadedClips(n) == [i \in 1..n |-> Clip(FileNames[i], i, Loaded(FileNames[i]), FALSE)]

BatchInit ==
    /\ \E n \in 1..MaxClips :
        /\ clips = LoadedClips(n)
        /\ heap = [i \in 1..n |-> Loaded(FileNames[i])]
    /\ processingIndices = <<>>
    /\ processingOps = [normalize |-> FALSE, compress |-> FALSE]
    /\ workers = <<>>
    /\ batchPhase = "idle"
    /\ uiActions = 0
    /\ actor = "ui"

\* Room left for the allocations of the UI handlers still to come.
Reserved == MaxUiActions - uiActions

\* MainWindow::applyProcessing, MainWindow.cpp:1230-1319, on the UI thread:
\* refused while processWatcher_ is running; otherwise the indices and the
\* parameters are stored, every selected clip is copied into
\* clipsToProcess, and the copies are moved into the lambda handed to
\* QtConcurrent::run.
applyProcessing ==
    /\ batchPhase = "idle"
    /\ \E indices \in Selections(Len(clips)), normalize \in BOOLEAN :
        /\ Len(heap) + 3 * Len(indices) + Reserved <= MaxAddr
        /\ processingIndices' = indices
        /\ processingOps' = [normalize |-> normalize, compress |-> ~normalize]
        /\ workers' = [i \in 1..Len(indices) |->
                        [arg |-> CopyClip(clips[indices[i]], Len(heap) + i),
                         clip |-> NoClip, pc |-> "queued"]]
        /\ heap' = heap \o [i \in 1..Len(indices) |-> heap[clips[indices[i]].samples]]
    /\ batchPhase' = "running"
    /\ actor' = "ui"
    /\ UNCHANGED <<clips, uiActions, earlyVars, redVars, clipVars, viewVars>>

\* A pool thread calls the mapped lambda on element i of clipList: its
\* parameter AudioClip clip is a copy of the element (MainWindow.cpp:1295).
WorkerCall ==
    /\ batchPhase = "running"
    /\ \E i \in {w \in 1..Len(workers) : workers[w].pc = "queued"} :
        /\ workers' = [workers EXCEPT
                         ![i].clip = CopyClip(workers[i].arg, Len(heap) + 1),
                         ![i].pc = "normalize"]
        /\ heap' = Append(heap, heap[workers[i].arg.samples])
    /\ actor' = "pool"
    /\ UNCHANGED <<clips, processingIndices, processingOps, batchPhase, uiActions,
                   earlyVars, redVars, clipVars, viewVars>>

\* if (normalize) engine->normalizeToPeak(clip, normTarget): the samples of
\* the worker's clip are scaled in place (MainWindow.cpp:1296-1298,
\* AudioEngine.cpp:32-35).
WorkerNormalize ==
    /\ batchPhase = "running"
    /\ \E i \in {w \in 1..Len(workers) : workers[w].pc = "normalize"} :
        /\ workers' = [workers EXCEPT ![i].pc = "compress"]
        /\ heap' = IF processingOps.normalize
                   THEN [heap EXCEPT ![workers[i].clip.samples] = Edited(@, "normalize")]
                   ELSE heap
    /\ actor' = "pool"
    /\ UNCHANGED <<clips, processingIndices, processingOps, batchPhase, uiActions,
                   earlyVars, redVars, clipVars, viewVars>>

\* if (compress) engine->compress(clip, ...): likewise
\* (MainWindow.cpp:1299-1301, AudioEngine.cpp:42-45).
WorkerCompress ==
    /\ batchPhase = "running"
    /\ \E i \in {w \in 1..Len(workers) : workers[w].pc = "compress"} :
        /\ workers' = [workers EXCEPT ![i].pc = "return"]
        /\ heap' = IF processingOps.compress
                   THEN [heap EXCEPT ![workers[i].clip.samples] = Edited(@, "compress")]
                   ELSE heap
    /\ actor' = "pool"
    /\ UNCHANGED <<clips, processingIndices, processingOps, batchPhase, uiActions,
                   earlyVars, redVars, clipVars, viewVars>>

\* clip.setModified(true); return clip (MainWindow.cpp:1302-1303).
WorkerReturn ==
    /\ batchPhase = "running"
    /\ \E i \in {w \in 1..Len(workers) : workers[w].pc = "return"} :
        workers' = [workers EXCEPT ![i].clip.modified = TRUE, ![i].pc = "returned"]
    /\ actor' = "pool"
    /\ UNCHANGED <<clips, heap, processingIndices, processingOps, batchPhase, uiActions,
                   earlyVars, redVars, clipVars, viewVars>>

\* mappedFuture.waitForFinished() returns; the results are copied into the
\* vector the future carries, and the watcher's finished() signal is queued
\* for the UI thread (MainWindow.cpp:1307-1318).
CollectResults ==
    /\ batchPhase = "running"
    /\ \A i \in 1..Len(workers) : workers[i].pc = "returned"
    /\ workers' = [i \in 1..Len(workers) |->
                    [workers[i] EXCEPT !.clip = CopyClip(workers[i].clip, Len(heap) + i),
                                       !.pc = "collected"]]
    /\ heap' = heap \o [i \in 1..Len(workers) |-> heap[workers[i].clip.samples]]
    /\ batchPhase' = "finished"
    /\ actor' = "pool"
    /\ UNCHANGED <<clips, processingIndices, processingOps, uiActions, earlyVars, redVars,
                   clipVars, viewVars>>

\* The positions i of processedClips whose processingIndices_[i] is a valid
\* index of clips_ now (MainWindow.cpp:1329-1331).
Replaced == {i \in 1..Len(workers) : i <= Len(processingIndices)
                                      /\ processingIndices[i] <= Len(clips)}

\* MainWindow::onProcessingFinished, MainWindow.cpp:1321-1381, on the UI
\* thread: clips_[idx] = std::move(processedClips[i]) for every i, then
\* processingIndices_.clear().
onProcessingFinished ==
    /\ batchPhase = "finished"
    /\ clips' = [idx \in 1..Len(clips) |->
                    IF \E i \in Replaced : processingIndices[i] = idx
                    THEN workers[CHOOSE i \in Replaced :
                                    /\ processingIndices[i] = idx
                                    /\ \A j \in Replaced :
                                          processingIndices[j] = idx => j <= i].clip
                    ELSE clips[idx]]
    /\ processingIndices' = <<>>
    /\ workers' = <<>>
    /\ batchPhase' = "idle"
    /\ actor' = "ui"
    /\ UNCHANGED <<heap, processingOps, uiActions, earlyVars, redVars, clipVars,
                   viewVars>>

\* MainWindow::onApplyTrim, MainWindow.cpp:1115-1168, on the UI thread: the
\* current clip gets a new, shorter sample vector through setSamples.
onApplyTrim ==
    /\ uiActions < MaxUiActions
    /\ \E idx \in 1..Len(clips) :
        /\ clips' = [clips EXCEPT ![idx].samples = Len(heap) + 1,
                                  ![idx].modified = TRUE]
        /\ heap' = Append(heap, Edited(heap[clips[idx].samples], "trim"))
    /\ uiActions' = uiActions + 1
    /\ actor' = "ui"
    /\ UNCHANGED <<processingIndices, processingOps, workers, batchPhase, earlyVars,
                   redVars, clipVars, viewVars>>

\* MainWindow::onUndoProcessing, MainWindow.cpp:1174-1186, on the UI
\* thread: restoreOriginal() copies originalSamples_ back into samples_
\* (every clip of the list has the snapshot taken when it was loaded).
onUndoProcessing ==
    /\ uiActions < MaxUiActions
    /\ \E idx \in 1..Len(clips) :
        /\ clips' = [clips EXCEPT ![idx].modified = FALSE]
        /\ heap' = [heap EXCEPT ![clips[idx].samples] = clips[idx].original]
    /\ uiActions' = uiActions + 1
    /\ actor' = "ui"
    /\ UNCHANGED <<processingIndices, processingOps, workers, batchPhase, earlyVars,
                   redVars, clipVars, viewVars>>

\* MainWindow::onLoadingFinished, MainWindow.cpp:903-929, on the UI thread:
\* a file that finished loading is appended to clips_.
onLoadingFinished ==
    /\ uiActions < MaxUiActions
    /\ Len(clips) < Len(FileNames)
    /\ \E file \in {FileNames[i] : i \in 1..Len(FileNames)} :
        /\ \A idx \in 1..Len(clips) : clips[idx].name # file
        /\ clips' = Append(clips, Clip(file, Len(heap) + 1, Loaded(file), FALSE))
        /\ heap' = Append(heap, Loaded(file))
    /\ uiActions' = uiActions + 1
    /\ actor' = "ui"
    /\ UNCHANGED <<processingIndices, processingOps, workers, batchPhase, earlyVars,
                   redVars, clipVars, viewVars>>

\* MainWindow::newProject and openProject, MainWindow.cpp:480-539, on the
\* UI thread: clips_.clear() (the project's files arrive later through
\* onLoadingFinished).
newProject ==
    /\ uiActions < MaxUiActions
    /\ clips # <<>>
    /\ clips' = <<>>
    /\ uiActions' = uiActions + 1
    /\ actor' = "ui"
    /\ UNCHANGED <<heap, processingIndices, processingOps, workers, batchPhase, earlyVars,
                   redVars, clipVars, viewVars>>

BatchNext ==
    \/ applyProcessing
    \/ WorkerCall
    \/ WorkerNormalize
    \/ WorkerCompress
    \/ WorkerReturn
    \/ CollectResults
    \/ onProcessingFinished
    \/ onApplyTrim
    \/ onUndoProcessing
    \/ onLoadingFinished
    \/ newProject

\* No clip loaded and no run.
BatchIdle ==
    /\ clips = <<>>
    /\ heap = <<>>
    /\ processingIndices = <<>>
    /\ processingOps = [normalize |-> FALSE, compress |-> FALSE]
    /\ workers = <<>>
    /\ batchPhase = "idle"
    /\ uiActions = 0
    /\ actor = "ui"

(***************************************************************************)
(* Claims about batch processing.                                          *)
(***************************************************************************)
\* The addresses of the sample vectors the UI thread's clip list holds.
UiAddresses == {clips[idx].samples : idx \in 1..Len(clips)}

\* The workers inside the mapped lambda, between the copy of the parameter
\* and the return.
Mutating == {w \in 1..Len(workers) : workers[w].pc \in {"normalize", "compress", "return"}}

\* The sample vector of every worker inside the lambda belongs to no other
\* worker, to no element of clipList and to no clip of the UI thread.
NoSharedBuffer ==
    \A w \in Mutating :
        /\ workers[w].clip.samples \notin UiAddresses
        /\ \A v \in 1..Len(workers) :
            /\ workers[w].clip.samples # workers[v].arg.samples
            /\ v # w => workers[w].clip.samples # workers[v].clip.samples

\* A step of a pool thread leaves the UI thread's clip list and the samples
\* of its clips as they were.
PoolStepLeavesUiAlone ==
    actor' = "pool" =>
        /\ clips' = clips
        /\ \A a \in UiAddresses : heap'[a] = heap[a]

\* C22: during batch processing every worker mutates only its own private
\* copy of a clip: no sample buffer is shared between two workers, or
\* between a worker and the UI-thread clip list, while it is normalized or
\* compressed; the UI's clips are replaced only by the completion handler,
\* on the UI thread.
C22_WorkersMutatePrivateCopies ==
    [][NoSharedBuffer' /\ PoolStepLeavesUiAlone]_vars

\* Two workers are inside the lambda at once, one of them past its
\* normalize call, and the samples of the UI's clips are still as loaded.
C22_Witness ==
    /\ batchPhase = "running"
    /\ Cardinality(Mutating) = 2
    /\ processingOps.normalize
    /\ \E w \in Mutating : heap[workers[w].clip.samples].edits = <<"normalize">>
    /\ \A idx \in 1..Len(clips) : heap[clips[idx].samples].edits = <<>>

\* What processing does to samples: the run's normalize or compress call.
Processed(content) ==
    LET normalized == IF processingOps.normalize THEN Edited(content, "normalize")
                      ELSE content
    IN  IF processingOps.compress THEN Edited(normalized, "compress") ELSE normalized

\* C30: when a background run completes, each processed result replaces
\* exactly the clip it was copied from and no edit is lost: for any
\* interleaving of UI actions with the run, clips_[idx] after
\* onProcessingFinished is the processed version of the clip that occupies
\* idx at completion time.
C30_ResultReplacesCurrentClip ==
    [][(batchPhase = "finished" /\ batchPhase' = "idle") =>
        \A i \in Replaced :
            /\ clips'[processingIndices[i]].name = clips[processingIndices[i]].name
            /\ heap'[clips'[processingIndices[i]].samples]
                    = Processed(heap[clips[processingIndices[i]].samples])]_vars

(***************************************************************************)
(* AudioClip's undo snapshot, audio/AudioClip.h:59-107 and                 *)
(* audio/AudioClip.cpp:28-57.                                              *)
(***************************************************************************)
MaxClipLen == 2         \* samples in a clip: 0..MaxClipLen

ClipSampleValues == {1, 2}
ClipMetricValues == {0, -6}

\* std::vector<float> values of up to MaxClipLen samples.
SampleVectors == UNION {[1..n -> ClipSampleValues] : n \in 0..MaxClipLen}

\* AudioClip::AudioClip(path, sampleRate, channels, samples) and the
\* member initialisers, AudioClip.cpp:9-16, AudioClip.h:98-107.
NewClip(data) ==
    [samples |-> data, peakDb |-> 0, rmsDb |-> 0,
     originalSamples |-> <<>>, originalPeakDb |-> 0, originalRmsDb |-> 0,
     modified |-> FALSE]

\* What a test observes of a clip: samples(), peakDb(), rmsDb().
Observed(clip) == [samples |-> clip.samples, peakDb |-> clip.peakDb, rmsDb |-> clip.rmsDb]

\* The record of the calls made so far: whether saveOriginal() was called,
\* what the clip held at the last such call, the last call and the clip
\* before it.
History(saved, atSave, last, before) ==
    [saved |-> saved, atSave |-> atSave, last |-> last, before |-> before]

AudioClipInit ==
    /\ \E data \in SampleVectors : audioClip = NewClip(data)
    /\ clipHistory = History(FALSE, Observed(NewClip(<<>>)), "construct", NewClip(<<>>))

\* The history after a call that is not saveOriginal().
Called(name) == [clipHistory EXCEPT !.last = name, !.before = audioClip]

\* AudioClip::setSamples, AudioClip.cpp:28-31.
setSamples ==
    /\ \E data \in SampleVectors :
        audioClip' = [audioClip EXCEPT !.samples = data, !.modified = TRUE]
    /\ clipHistory' = Called("setSamples")
    /\ UNCHANGED <<earlyVars, redVars, batchVars, viewVars>>

\* AudioClip::updateMetrics, AudioClip.cpp:38-41.
updateMetrics ==
    /\ \E peakDb \in ClipMetricValues, rmsDb \in ClipMetricValues :
        audioClip' = [audioClip EXCEPT !.peakDb = peakDb, !.rmsDb = rmsDb]
    /\ clipHistory' = Called("updateMetrics")
    /\ UNCHANGED <<earlyVars, redVars, batchVars, viewVars>>

\* AudioClip::setModified, AudioClip.h:91.
setModified ==
    /\ \E modified \in BOOLEAN : audioClip' = [audioClip EXCEPT !.modified = modified]
    /\ clipHistory' = Called("setModified")
    /\ UNCHANGED <<earlyVars, redVars, batchVars, viewVars>>

\* A write through samplesMutable(), AudioClip.h:42, as the DSP functions
\* do: one sample changes in place.
samplesMutable ==
    /\ \E i \in 1..Len(audioClip.samples), value \in ClipSampleValues :
        audioClip' = [audioClip EXCEPT !.samples[i] = value]
    /\ clipHistory' = Called("samplesMutable")
    /\ UNCHANGED <<earlyVars, redVars, batchVars, viewVars>>

\* AudioClip::saveOriginal, AudioClip.cpp:43-48.
saveOriginal ==
    /\ audioClip' = [audioClip EXCEPT !.originalSamples = audioClip.samples,
                                      !.originalPeakDb = audioClip.peakDb,
                                      !.originalRmsDb = audioClip.rmsDb,
                                      !.modified = FALSE]
    /\ clipHistory' = History(TRUE, Observed(audioClip), "saveOriginal", audioClip)
    /\ UNCHANGED <<earlyVars, redVars, batchVars, viewVars>>

\* AudioClip::restoreOriginal, AudioClip.cpp:50-57.
restoreOriginal ==
    /\ audioClip' = IF audioClip.originalSamples = <<>> THEN audioClip
                    ELSE [audioClip EXCEPT !.samples = audioClip.originalSamples,
                                           !.peakDb = audioClip.originalPeakDb,
                                           !.rmsDb = audioClip.originalRmsDb,
                                           !.modified = FALSE]
    /\ clipHistory' = Called("restoreOriginal")
    /\ UNCHANGED <<earlyVars, redVars, batchVars, viewVars>>

AudioClipNext ==
    \/ setSamples
    \/ updateMetrics
    \/ setModified
    \/ samplesMutable
    \/ saveOriginal
    \/ restoreOriginal

\* No clip under test.
ClipIdle ==
    /\ audioClip = <<>>
    /\ clipHistory = <<>>

(***************************************************************************)
(* Claims about the undo snapshot.                                         *)
(***************************************************************************)
\* C23: after saveOriginal(), any sequence of setSamples, updateMetrics,
\* setModified and in-place sample mutation followed by restoreOriginal()
\* leaves samples, peakDb and rmsDb equal to their values at the time of
\* saveOriginal() and isModified() false; restoreOriginal() without a prior
\* saveOriginal() changes nothing.
C23_UndoRoundTrip ==
    clipHistory.last = "restoreOriginal" =>
        IF clipHistory.saved
        THEN /\ Observed(audioClip) = clipHistory.atSave
             /\ ~audioClip.modified
        ELSE audioClip = clipHistory.before

(***************************************************************************)
(* The waveform view as a widget, ui/WaveformView.cpp:39-162, 187-224 and  *)
(* 632-817: the events that reach it and what each does to its clip,       *)
(* geometry, zoom, scroll, trim, fades and cache flag.  samplesPerPixel_   *)
(* is held as an exact fraction <<numerator, denominator>> in lowest       *)
(* terms; the rounding of the double products is left out.  The cache is   *)
(* known by the inputs it was computed from.                               *)
(***************************************************************************)
MaxViewFrames == 3      \* clips of 0..MaxViewFrames frames are shown
MaxViewWidth == 2       \* widget widths 1..MaxViewWidth
MaxViewFade == 1        \* fade lengths asked for: -1..MaxViewFade
MaxViewEvents == 3      \* events delivered besides paint events

RECURSIVE GCD(_, _)
GCD(a, b) == IF b = 0 THEN a ELSE GCD(b, a % b)

\* The double n/d, d > 0, n >= 0.
Spp(n, d) == LET g == GCD(n, d) IN <<n \div g, d \div g>>

SppMul(a, b) == Spp(a[1] * b[1], a[2] * b[2])
SppLess(a, b) == a[1] * b[2] < b[1] * a[2]

\* static_cast<int>(n / d): towards zero.
TruncDiv(n, d) == IF n >= 0 THEN n \div d ELSE -((-n) \div d)

\* static_cast<int>(x * samplesPerPixel_).
PixelsToFrames(x, spp) == TruncDiv(x * spp[1], spp[2])

\* std::clamp(v, lo, hi) on ints.  With hi < lo the call is undefined: the
\* standard libraries in use return (v < lo) ? lo : (hi < v) ? hi : v or
\* min(max(v, lo), hi); with lo <= hi both are the clamped value.
ClampOutcomes(v, lo, hi) == {Clamp(v, lo, hi), Min(Max(v, lo), hi)}

\* std::clamp(v, lo, hi) on doubles, likewise.
SppMin(a, b) == IF SppLess(b, a) THEN b ELSE a
SppMax(a, b) == IF SppLess(a, b) THEN b ELSE a
SppClampOutcomes(v, lo, hi) ==
    {IF SppLess(v, lo) THEN lo ELSE IF SppLess(hi, v) THEN hi ELSE v,
     SppMin(SppMax(v, lo), hi)}

\* clip_ == nullptr.
NoViewClip == [clip |-> 0, frames |-> 0, version |-> 0]

\* clip_ pointing at clip number id, whose buffer holds so many frames and
\* has been replaced version times since the clip was selected.
ViewClip(id, frames, version) == [clip |-> id, frames |-> frames, version |-> version]

\* The clips of the list: one of each length.
ViewClips == {ViewClip(n + 1, n, 0) : n \in 0..MaxViewFrames}

\* What computeWaveformCache reads: the clip's buffer, width(),
\* scrollOffsetFrames_ and samplesPerPixel_ (WaveformView.cpp:256-305).
CacheInputs(clip, width, scroll, spp) ==
    [clip |-> clip, width |-> width, scroll |-> scroll, spp |-> spp]

CurrentInputs == CacheInputs(viewClip, viewWidth, viewScroll, viewSpp)

\* samplesPerPixel_ after zoomToFit, WaveformView.cpp:96-97.
FitSpp(frames, width) ==
    IF SppLess(Spp(frames, width), <<1, 1>>) THEN <<1, 1>> ELSE Spp(frames, width)

\* std::max(0, static_cast<int>(frameCount - width() * samplesPerPixel_)),
\* WaveformView.cpp:86, 771, 810.
MaxScroll(frames, width, spp) ==
    Max(0, TruncDiv(frames * spp[2] - width * spp[1], spp[2]))

\* The view as constructed and shown (WaveformView.h:145-165), or showing
\* a clip just selected; nothing painted yet.
ViewInit ==
    /\ viewWidth \in 1..MaxViewWidth
    /\ viewClip \in ViewClips \cup {NoViewClip}
    /\ viewSpp = IF viewClip = NoViewClip THEN <<1, 1>>
                 ELSE FitSpp(viewClip.frames, viewWidth)
    /\ viewScroll = 0
    /\ viewCacheValid = FALSE
    /\ viewCacheInputs = CacheInputs(NoViewClip, 0, 0, <<1, 1>>)
    /\ viewTrimStart = 0
    /\ viewTrimEnd = 0
    /\ viewFadeIn = 0
    /\ viewFadeOut = 0
    /\ viewEvents = 0
    /\ viewPainted = <<>>

\* One more event is delivered.
Delivered ==
    /\ viewEvents < MaxViewEvents
    /\ viewEvents' = viewEvents + 1

\* WaveformView::setClip(clip), WaveformView.cpp:39-50, with clearTrim and
\* zoomToFit.
SetClipTo(clip) ==
    /\ viewClip' = clip
    /\ viewCacheValid' = FALSE
    /\ viewScroll' = 0
    /\ viewTrimStart' = 0
    /\ viewTrimEnd' = 0
    /\ viewSpp' = IF clip # NoViewClip /\ viewWidth > 0
                  THEN FitSpp(clip.frames, viewWidth)
                  ELSE viewSpp

\* MainWindow::onSelectionChanged, MainWindow.cpp:935-968: setClip(nullptr)
\* or setClip(&clips_[idx]).
setClip ==
    /\ Delivered
    /\ \E clip \in ViewClips \cup {NoViewClip} : SetClipTo(clip)
    /\ UNCHANGED <<viewWidth, viewCacheInputs, viewFadeIn, viewFadeOut, viewPainted,
                   earlyVars, redVars, batchVars, clipVars>>

\* MainWindow::onApplyTrim from the view's side, MainWindow.cpp:1115-1168:
\* the shown clip gets the trimmed samples, then clearTrim() and
\* setClip(clip).
trimApplied ==
    /\ viewClip # NoViewClip
    /\ ~(viewTrimStart <= 0 /\ viewTrimEnd <= 0)
    /\ LET effectiveEnd == IF viewTrimEnd > 0 THEN viewTrimEnd ELSE viewClip.frames
       IN  /\ viewTrimStart < effectiveEnd
           /\ viewTrimStart >= 0
           /\ viewTrimStart < viewClip.frames
           /\ SetClipTo(ViewClip(viewClip.clip,
                                 Min(effectiveEnd, viewClip.frames) - viewTrimStart,
                                 viewClip.version + 1))
    /\ Delivered
    /\ UNCHANGED <<viewWidth, viewCacheInputs, viewFadeIn, viewFadeOut, viewPainted,
                   earlyVars, redVars, batchVars, clipVars>>

\* MainWindow::onUndoProcessing and onProcessingFinished from the view's
\* side, MainWindow.cpp:1174-1186 and 1331-1377: the shown clip gets other
\* samples (the original ones, or the processed ones) and setClip(clip) is
\* called.
bufferReplaced ==
    /\ viewClip # NoViewClip
    /\ \E frames \in 1..MaxViewFrames :
        SetClipTo(ViewClip(viewClip.clip, frames, viewClip.version + 1))
    /\ Delivered
    /\ UNCHANGED <<viewWidth, viewCacheInputs, viewFadeIn, viewFadeOut, viewPainted,
                   earlyVars, redVars, batchVars, clipVars>>

\* WaveformView::zoomAtPoint(pixelX, factor), WaveformView.cpp:64-91.
zoomAtPoint(pixelX, factor) ==
    /\ viewClip # NoViewClip
    /\ LET frameUnderCursor == viewScroll + PixelsToFrames(pixelX, viewSpp)
           minSpp == <<1, 1>>
           maxSpp == Spp(viewClip.frames, viewWidth)
       IN  \E newSpp \in SppClampOutcomes(SppMul(viewSpp, factor), minSpp, maxSpp) :
               /\ newSpp # viewSpp
               /\ viewSpp' = newSpp
               /\ viewScroll' = Clamp(frameUnderCursor - PixelsToFrames(pixelX, newSpp), 0,
                                      MaxScroll(viewClip.frames, viewWidth, newSpp))
    /\ viewCacheValid' = FALSE

\* WaveformView::zoomIn, WaveformView.cpp:56-58.
zoomIn ==
    /\ zoomAtPoint(viewWidth \div 2, <<1, 2>>)
    /\ Delivered
    /\ UNCHANGED <<viewClip, viewWidth, viewCacheInputs, viewTrimStart, viewTrimEnd,
                   viewFadeIn, viewFadeOut, viewPainted,
                   earlyVars, redVars, batchVars, clipVars>>

\* WaveformView::zoomOut, WaveformView.cpp:60-62.
zoomOut ==
    /\ zoomAtPoint(viewWidth \div 2, <<2, 1>>)
    /\ Delivered
    /\ UNCHANGED <<viewClip, viewWidth, viewCacheInputs, viewTrimStart, viewTrimEnd,
                   viewFadeIn, viewFadeOut, viewPainted,
                   earlyVars, redVars, batchVars, clipVars>>

\* WaveformView::wheelEvent with the control key, WaveformView.cpp:800-804:
\* factor 0.7 or 1.4 at the cursor.
wheelZoom ==
    /\ \E cursorX \in 0..(viewWidth - 1), factor \in {<<7, 10>>, <<7, 5>>} :
        zoomAtPoint(cursorX, factor)
    /\ Delivered
    /\ UNCHANGED <<viewClip, viewWidth, viewCacheInputs, viewTrimStart, viewTrimEnd,
                   viewFadeIn, viewFadeOut, viewPainted,
                   earlyVars, redVars, batchVars, clipVars>>

\* WaveformView::zoomToFit, WaveformView.cpp:93-102.
zoomToFit ==
    /\ viewClip # NoViewClip
    /\ viewWidth > 0
    /\ viewSpp' = FitSpp(viewClip.frames, viewWidth)
    /\ viewScroll' = 0
    /\ viewCacheValid' = FALSE
    /\ Delivered
    /\ UNCHANGED <<viewClip, viewWidth, viewCacheInputs, viewTrimStart, viewTrimEnd,
                   viewFadeIn, viewFadeOut, viewPainted,
                   earlyVars, redVars, batchVars, clipVars>>

\* scrollOffsetFrames_ = std::clamp(newOffset, 0, maxScroll); cacheValid_ =
\* false: the end of both scroll handlers.
ScrollTo(newOffset) ==
    /\ viewScroll' = Clamp(newOffset, 0, MaxScroll(viewClip.frames, viewWidth, viewSpp))
    /\ viewCacheValid' = FALSE

\* WaveformView::mouseMoveEvent while dragging to scroll,
\* WaveformView.cpp:766-775.
mouseMoveScroll ==
    /\ viewClip # NoViewClip
    /\ \E deltaX \in {-1, 1} :
        ScrollTo(viewScroll + PixelsToFrames(deltaX, viewSpp))
    /\ Delivered
    /\ UNCHANGED <<viewClip, viewWidth, viewSpp, viewCacheInputs, viewTrimStart,
                   viewTrimEnd, viewFadeIn, viewFadeOut, viewPainted,
                   earlyVars, redVars, batchVars, clipVars>>

\* WaveformView::wheelEvent without the control key,
\* WaveformView.cpp:805-813: delta * samplesPerPixel_ * 0.5 frames.
wheelScroll ==
    /\ viewClip # NoViewClip
    /\ \E delta \in {-2, 2} :
        ScrollTo(viewScroll - TruncDiv(delta * viewSpp[1], 2 * viewSpp[2]))
    /\ Delivered
    /\ UNCHANGED <<viewClip, viewWidth, viewSpp, viewCacheInputs, viewTrimStart,
                   viewTrimEnd, viewFadeIn, viewFadeOut, viewPainted,
                   earlyVars, redVars, batchVars, clipVars>>

\* A plausible slip: the cache is kept across a resize.
resizeEvent_keepsCache ==
    /\ \E width \in (1..MaxViewWidth) \ {viewWidth} : viewWidth' = width
    /\ Delivered
    /\ UNCHANGED <<viewClip, viewScroll, viewSpp, viewCacheValid, viewCacheInputs,
                   viewTrimStart, viewTrimEnd, viewFadeIn, viewFadeOut, viewPainted,
                   earlyVars, redVars, batchVars, clipVars>>

\* WaveformView::resizeEvent, WaveformView.cpp:221-224, delivered when the
\* widget's width has changed.
resizeEvent ==
    /\ \E width \in (1..MaxViewWidth) \ {viewWidth} : viewWidth' = width
    /\ viewCacheValid' = FALSE
    /\ Delivered
    /\ UNCHANGED <<viewClip, viewScroll, viewSpp, viewCacheInputs, viewTrimStart,
                   viewTrimEnd, viewFadeIn, viewFadeOut, viewPainted,
                   earlyVars, redVars, batchVars, clipVars>>

\* The values a caller passes to the trim setters.
TrimRequests == (-1)..(MaxViewFrames + 1)

\* WaveformView::setTrimStartFrame, WaveformView.cpp:108-116.
setTrimStartFrame ==
    /\ viewClip # NoViewClip
    /\ \E frame \in TrimRequests :
        \E clamped \in ClampOutcomes(frame, 0, viewClip.frames - 1) :
            viewTrimStart' = IF viewTrimEnd > 0 /\ clamped >= viewTrimEnd
                             THEN viewTrimEnd - 1
                             ELSE clamped
    /\ Delivered
    /\ UNCHANGED <<viewClip, viewWidth, viewScroll, viewSpp, viewCacheValid,
                   viewCacheInputs, viewTrimEnd, viewFadeIn, viewFadeOut, viewPainted,
                   earlyVars, redVars, batchVars, clipVars>>

\* A plausible slip: the end handle is not kept inside the clip.
setTrimEndFrame_unclamped ==
    /\ viewClip # NoViewClip
    /\ \E frame \in TrimRequests :
        viewTrimEnd' = IF frame > 0 /\ frame <= viewTrimStart
                       THEN viewTrimStart + 1
                       ELSE Max(0, frame)
    /\ Delivered
    /\ UNCHANGED <<viewClip, viewWidth, viewScroll, viewSpp, viewCacheValid,
                   viewCacheInputs, viewTrimStart, viewFadeIn, viewFadeOut, viewPainted,
                   earlyVars, redVars, batchVars, clipVars>>

\* WaveformView::setTrimEndFrame, WaveformView.cpp:118-127.
setTrimEndFrame ==
    /\ viewClip # NoViewClip
    /\ \E frame \in TrimRequests :
        LET clamped == Clamp(frame, 0, viewClip.frames)
        IN  viewTrimEnd' = IF clamped > 0 /\ clamped <= viewTrimStart
                           THEN viewTrimStart + 1
                           ELSE clamped
    /\ Delivered
    /\ UNCHANGED <<viewClip, viewWidth, viewScroll, viewSpp, viewCacheValid,
                   viewCacheInputs, viewTrimStart, viewFadeIn, viewFadeOut, viewPainted,
                   earlyVars, redVars, batchVars, clipVars>>

\* WaveformView::clearTrim, WaveformView.cpp:129-134.
clearTrim ==
    /\ viewTrimStart' = 0
    /\ viewTrimEnd' = 0
    /\ Delivered
    /\ UNCHANGED <<viewClip, viewWidth, viewScroll, viewSpp, viewCacheValid,
                   viewCacheInputs, viewFadeIn, viewFadeOut, viewPainted,
                   earlyVars, redVars, batchVars, clipVars>>

\* WaveformView::setFadeInLengthFrames, WaveformView.cpp:146-153.
setFadeInLengthFrames ==
    /\ \E frames \in (-1)..MaxViewFade :
        /\ Max(0, frames) # viewFadeIn
        /\ viewFadeIn' = Max(0, frames)
    /\ Delivered
    /\ UNCHANGED <<viewClip, viewWidth, viewScroll, viewSpp, viewCacheValid,
                   viewCacheInputs, viewTrimStart, viewTrimEnd, viewFadeOut, viewPainted,
                   earlyVars, redVars, batchVars, clipVars>>

\* WaveformView::setFadeOutLengthFrames, WaveformView.cpp:155-162.
setFadeOutLengthFrames ==
    /\ \E frames \in (-1)..MaxViewFade :
        /\ Max(0, frames) # viewFadeOut
        /\ viewFadeOut' = Max(0, frames)
    /\ Delivered
    /\ UNCHANGED <<viewClip, viewWidth, viewScroll, viewSpp, viewCacheValid,
                   viewCacheInputs, viewTrimStart, viewTrimEnd, viewFadeIn, viewPainted,
                   earlyVars, redVars, batchVars, clipVars>>

\* WaveformView::paintEvent, WaveformView.cpp:187-219: without a clip or
\* samples only the hint text is drawn; otherwise the cache is recomputed
\* if it is not valid, and drawn.
paintEvent ==
    /\ IF viewClip = NoViewClip \/ viewClip.frames = 0
       THEN /\ viewPainted' = <<>>
            /\ UNCHANGED <<viewCacheValid, viewCacheInputs>>
       ELSE /\ viewCacheValid' = TRUE
            /\ viewCacheInputs' = IF viewCacheValid THEN viewCacheInputs ELSE CurrentInputs
            /\ viewPainted' = [cache |-> viewCacheInputs', inputs |-> CurrentInputs]
    /\ UNCHANGED <<viewClip, viewWidth, viewScroll, viewSpp, viewTrimStart, viewTrimEnd,
                   viewFadeIn, viewFadeOut, viewEvents,
                   earlyVars, redVars, batchVars, clipVars>>

ViewNext ==
    \/ setClip
    \/ trimApplied
    \/ bufferReplaced
    \/ zoomIn
    \/ zoomOut
    \/ wheelZoom
    \/ zoomToFit
    \/ mouseMoveScroll
    \/ wheelScroll
    \/ resizeEvent
    \/ setTrimStartFrame
    \/ setTrimEndFrame
    \/ clearTrim
    \/ setFadeInLengthFrames
    \/ setFadeOutLengthFrames
    \/ paintEvent

\* No widget.
ViewIdle ==
    /\ viewClip = <<>>
    /\ viewWidth = 0
    /\ viewScroll = 0
    /\ viewSpp = <<>>
    /\ viewCacheValid = FALSE
    /\ viewCacheInputs = <<>>
    /\ viewTrimStart = 0
    /\ viewTrimEnd = 0
    /\ viewFadeIn = 0
    /\ viewFadeOut = 0
    /\ viewEvents = 0
    /\ viewPainted = <<>>

\* What drawFadeRegions and hitTestHandle compute inline,
\* WaveformView.cpp:456-465 and 647-680.
InlineFadeFrames(maxFrame, trimStart, trimEnd, fadeIn, fadeOut) ==
    LET effectiveEndFrame == IF trimEnd > 0 THEN trimEnd ELSE maxFrame
        activeLength == effectiveEndFrame - trimStart
        maxFadeEach == activeLength \div 2
        clampedFadeIn == Min(fadeIn, maxFadeEach)
        clampedFadeOut == Min(fadeOut, maxFadeEach)
    IN  IF activeLength <= 0
        THEN [active |-> FALSE, fadeInEnd |-> 0, fadeOutStart |-> 0]
        ELSE [active |-> TRUE,
              fadeInEnd |-> trimStart + clampedFadeIn,
              fadeOutStart |-> effectiveEndFrame - clampedFadeOut]

C27_SppAtLeastOne ==
    (viewClip # NoViewClip /\ viewClip.frames >= 1 /\ viewWidth > 0) =>
        ~SppLess(viewSpp, <<1, 1>>)

\* The two frames computed inline agree with what computeTrimAndFadeRanges
\* returns for the widget's clip, trim and fades.
InlineAgreesWithResolver ==
    LET inline == InlineFadeFrames(viewClip.frames, viewTrimStart, viewTrimEnd,
                                   viewFadeIn, viewFadeOut)
    IN  \A full \in BOOLEAN :
            LET ranges == computeTrimAndFadeRanges(viewClip.frames, viewTrimStart,
                                viewTrimEnd, full, viewFadeIn, viewFadeOut)
            IN  /\ inline.active
                /\ inline.fadeInEnd = ranges.fadeInEndFrame
                /\ inline.fadeOutStart = ranges.fadeOutStartFrame

\* C29: for every view state reachable through setTrimStartFrame,
\* setTrimEndFrame, clearTrim, setFadeInLengthFrames and
\* setFadeOutLengthFrames on a clip with at least one frame, the fade-in
\* end frame and fade-out start frame the widget computes inline for
\* drawing and hit-testing equal the fadeInEndFrame and fadeOutStartFrame
\* returned by computeTrimAndFadeRanges for the same frameCount, trim and
\* fade values.
C29_InlineFadesMatchResolver ==
    (viewClip # NoViewClip /\ viewClip.frames >= 1) => InlineAgreesWithResolver

\* Both trim handles are set inside the clip, one frame apart, and a
\* fade-in is asked for that is longer than half of what lies between them.
C29_Witness ==
    /\ viewClip # NoViewClip
    /\ viewClip.frames = MaxViewFrames
    /\ viewTrimStart = 1
    /\ viewTrimEnd = 2
    /\ viewFadeIn = 1
    /\ viewFadeOut = 0
    /\ InlineFadeFrames(viewClip.frames, viewTrimStart, viewTrimEnd,
                        viewFadeIn, viewFadeOut).fadeInEnd = 1

(***************************************************************************)
(* The specifications: one per component, the others at rest.              *)
(***************************************************************************)
EarlyIdle ==
    ResolverIdle /\ DecimatorIdle /\ DspIdle /\ CompIdle /\ FadeIdle /\ ParallelIdle
LateIdle == RedIdle /\ BatchIdle /\ ClipIdle /\ ViewIdle
InitResolver ==
    ResolverInit /\ DecimatorIdle /\ DspIdle /\ CompIdle /\ FadeIdle /\ ParallelIdle
        /\ LateIdle
InitDecimator ==
    DecimatorInit /\ ResolverIdle /\ DspIdle /\ CompIdle /\ FadeIdle /\ ParallelIdle
        /\ LateIdle
InitDSP ==
    DspInit /\ ResolverIdle /\ DecimatorIdle /\ CompIdle /\ FadeIdle /\ ParallelIdle
        /\ LateIdle
InitCompressor ==
    CompInit /\ ResolverIdle /\ DecimatorIdle /\ DspIdle /\ FadeIdle /\ ParallelIdle
        /\ LateIdle
InitCompressorAnyLength ==
    CompInitAnyLength /\ ResolverIdle /\ DecimatorIdle /\ DspIdle /\ FadeIdle
        /\ ParallelIdle
        /\ LateIdle
InitFade ==
    FadeInit /\ ResolverIdle /\ DecimatorIdle /\ DspIdle /\ CompIdle /\ ParallelIdle
        /\ LateIdle
InitParallelDecimator ==
    ParallelInit /\ ResolverIdle /\ DspIdle /\ CompIdle /\ FadeIdle
        /\ LateIdle
InitParallelDSP == RedInit /\ EarlyIdle /\ BatchIdle /\ ClipIdle /\ ViewIdle
InitBatch == BatchInit /\ EarlyIdle /\ RedIdle /\ ClipIdle /\ ViewIdle
InitAudioClip == AudioClipInit /\ EarlyIdle /\ RedIdle /\ BatchIdle /\ ViewIdle
InitWaveformView == ViewInit /\ EarlyIdle /\ RedIdle /\ BatchIdle /\ ClipIdle

SpecResolver == InitResolver /\ [][ResolverNext]_vars
SpecDecimator == InitDecimator /\ [][DecimatorNext]_vars
SpecDSP == InitDSP /\ [][DspNext]_vars
SpecCompressor == InitCompressor /\ [][CompNext]_vars
SpecCompressorAnyLength == InitCompressorAnyLength /\ [][CompNext]_vars
SpecFade == InitFade /\ [][FadeNext]_vars
SpecParallelDecimator == InitParallelDecimator /\ [][ParallelNext]_vars
SpecParallelDSP == InitParallelDSP /\ [][RedNext]_vars
SpecBatch == InitBatch /\ [][BatchNext]_vars
SpecAudioClip == InitAudioClip /\ [][AudioClipNext]_vars
SpecWaveformView == InitWaveformView /\ [][ViewNext]_vars
====
